---------------------------- MODULE Spec2Model ----------------------------
(***************************************************************************)
(* A model of the conditional-averaging session of rfea.py: a params       *)
(* object (class params), its mutator set_time, and data.condavg, whose    *)
(* shot loop is modelled one iteration per step; and of three functions    *)
(* applied outside a session, each to arguments drawn at the start:        *)
(* fname_tds (fname_tds.py), dfunc.bestfit and join_dfunc.set_dfunc.       *)
(*                                                                         *)
(* Conventions.  A Python value that may be None is a sequence of length   *)
(* 0 (None) or 1 (the value).  A 1-D numpy array is a sequence; Python     *)
(* index i is sequence index i+1.  A dataset Arr[time, step, shot] is a    *)
(* function step -> shot -> trace.  Samples are integers; the mean and the *)
(* renormalisation factor are exact fractions [num, den].                  *)
(***************************************************************************)
EXTENDS Integers, Sequences, FiniteSets, TLC

VARIABLES
    obj,         \* the params object: nsteps, nshots, t1, t2, bt1, bt2
    obj0,        \* history: the params object as it was when condavg was called
    pc,          \* "idle" | "loop" | "done" | "raised"
    bint,        \* condavg argument: B-field dataset
    curr,        \* condavg argument: current dataset
    bref_arg,    \* condavg argument bref (None or a trace)
    ref_arg,     \* condavg argument ref (None or <<step, shot>>)
    bref,        \* local bref after line 285
    curr_arr,    \* local curr_arr
    skip_arr,    \* local skip_arr
    step,        \* loop variable of the outer loop (None between steps)
    skips,       \* local skips
    shots_done,  \* shots of the current step already iterated
    steps_done,  \* steps already iterated
    lagcalls,    \* history: the fmp.lagtime calls made, per (step, shot)
    ret,         \* the tuple the call returned (None before)
    exc,         \* the exception the call raised ("" if none)
    want,        \* history: the lag threshold the caller of condavg wants
    fn,          \* the function applied outside a session ("" in a session)
    fargs,       \* its arguments
    res          \* its result (None before it is applied)

vars == <<obj, obj0, pc, bint, curr, bref_arg, ref_arg, bref, curr_arr, skip_arr,
          step, skips, shots_done, steps_done, lagcalls, ret, exc, want,
          fn, fargs, res>>

---------------------------------------------------------------------------
(* Bounds of the model *)

MaxSteps == 2
MaxShots == 2
MaxNt == 3

(* threshold=0.7 of the lagtime call, in percent *)
ThresholdPct == 70

None == <<>>
Some(v) == <<v>>
IsNone(o) == o = <<>>
Val(o) == o[1]

Steps(o) == 0 .. (o.nsteps - 1)
Shots(o) == 0 .. (o.nshots - 1)

Min(S) == CHOOSE x \in S : \A y \in S : x <= y

---------------------------------------------------------------------------
(* numpy / Python primitives used by condavg *)

RECURSIVE SeqSum(_)
SeqSum(s) == IF s = <<>> THEN 0 ELSE Head(s) + SeqSum(Tail(s))

(* a[lo:hi] for a 1-D array, lo and hi None or a non-negative int *)
Slice(a, lo, hi) ==
    LET n == Len(a)
        l == IF IsNone(lo) THEN 0 ELSE IF Val(lo) > n THEN n ELSE Val(lo)
        h == IF IsNone(hi) THEN n ELSE IF Val(hi) > n THEN n ELSE Val(hi)
    IN  IF l >= h THEN <<>> ELSE SubSeq(a, l + 1, h)

(* np.roll(a, shift): element i moves to (i + shift) mod n *)
Roll(a, shift) ==
    LET n == Len(a)
    IN  [j \in 1 .. n |-> a[((j - 1 - shift) % n) + 1]]

Zeros(n) == [j \in 1 .. n |-> 0]

(* dest[:] = src for a 1-D destination of length n: equal shapes copy,   *)
(* a length-1 source broadcasts, anything else raises ValueError.        *)
CanAssign(n, src) == Len(src) = n \/ Len(src) = 1
Assigned(n, src) == IF Len(src) = n THEN src ELSE [j \in 1 .. n |-> src[1]]

---------------------------------------------------------------------------
(* fmp.lagtime(bref, bsig, threshold)['xlag']: the integer shift that     *)
(* maximises the normalised circular cross-correlation of bsig with bref,*)
(* or None when the peak coefficient is below the threshold or undefined *)
(* (a zero-variance signal).  Deviations are scaled by n to stay integer.*)

Dev(a) ==
    LET n == Len(a)
        t == SeqSum(a)
    IN  [j \in 1 .. n |-> n * a[j] - t]
Dot(a, b) == SeqSum([j \in 1 .. Len(a) |-> a[j] * b[j]])
Signed(k, n) == IF 2 * k <= n THEN k ELSE k - n

lagtime(r, c, thresholdPct) ==
    IF Len(r) # Len(c) \/ Len(r) = 0 THEN None
    ELSE LET n == Len(r)
             dr == Dev(r)
             dc == Dev(c)
             den2 == Dot(dr, dr) * Dot(dc, dc)
             xcorr == [k \in 0 .. (n - 1) |-> Dot(dr, Roll(dc, -k))]
             best == CHOOSE k \in 0 .. (n - 1) :
                       /\ \A m \in 0 .. (n - 1) : xcorr[m] <= xcorr[k]
                       /\ \A m \in 0 .. (k - 1) : xcorr[m] < xcorr[k]
             peak == xcorr[best]
         IN  IF /\ den2 > 0
                /\ peak > 0
                /\ 10000 * peak * peak >= thresholdPct * thresholdPct * den2
             THEN Some(Signed(best, n))
             ELSE None

---------------------------------------------------------------------------
(* The datasets a caller passes: one B-field and one current trace per    *)
(* (step, shot), all of nt samples.  Kinds of run:                        *)
(*   "jitter"   every shot is the same pulse, delayed by (step + shot)    *)
(*   "flat"     every B trace has zero variance                           *)
(*   "lastflat" the last shot of every step has a flat B trace            *)
(*   "step0flat" the shots of step 0 have flat B traces                   *)

DataKinds == {"jitter", "flat", "lastflat", "step0flat"}
NtVals == (MaxNt - 1) .. MaxNt

Pulse(nt) == [j \in 1 .. nt |-> IF j = 1 THEN 4 ELSE 0]
Flat(nt) == [j \in 1 .. nt |-> 2]

IsFlat(kind, o, s, h) ==
    \/ kind = "flat"
    \/ kind = "lastflat" /\ h = o.nshots - 1
    \/ kind = "step0flat" /\ s = 0

BTrace(kind, nt, o, s, h) ==
    IF IsFlat(kind, o, s, h) THEN Flat(nt) ELSE Roll(Pulse(nt), s + h)

(* the common current trace of a step, and each shot's delayed copy of it; *)
(* shots with a flat B trace carry an unrelated current trace              *)
Common(nt, s) == [j \in 1 .. nt |-> j + nt * s]
CTrace(kind, nt, o, s, h) ==
    IF IsFlat(kind, o, s, h)
    THEN [j \in 1 .. nt |-> 10 + j + nt * (h + o.nshots * s)]
    ELSE Roll(Common(nt, s), s + h)

BDataset(kind, nt, o) ==
    [s \in Steps(o) |-> [h \in Shots(o) |-> BTrace(kind, nt, o, s, h)]]
CDataset(kind, nt, o) ==
    [s \in Steps(o) |-> [h \in Shots(o) |-> CTrace(kind, nt, o, s, h)]]

(* number of time samples of a dataset: curr.shape[0] *)
Shape0(d) == Len(d[0][0])

---------------------------------------------------------------------------
(* class params *)

(* params.__init__: the fields the averaging reads *)
params(nsteps, nshots) ==
    [nsteps |-> nsteps, nshots |-> nshots,
     t1 |-> None, t2 |-> None, bt1 |-> None, bt2 |-> None]

(* mutant of set_time: every bound is assigned, a None included *)
set_time_assign(o, t1, t2, bt1, bt2) ==
    [o EXCEPT !.t1 = t1, !.t2 = t2, !.bt1 = bt1, !.bt2 = bt2]

(* params.set_time *)
set_time(o, t1, t2, bt1, bt2) ==
    [o EXCEPT !.t1 = IF ~IsNone(t1) THEN t1 ELSE @,
              !.t2 = IF ~IsNone(t2) THEN t2 ELSE @,
              !.bt1 = IF ~IsNone(bt1) THEN bt1 ELSE @,
              !.bt2 = IF ~IsNone(bt2) THEN bt2 ELSE @]

(* the bounds a caller passes to set_time *)
LoVals == {None, Some(0), Some(1)}
HiVals == {None, Some(MaxNt - 1), Some(MaxNt)}
TimeArgs ==
    (LoVals \X HiVals \X LoVals \X HiVals) \ {<<None, None, None, None>>}

---------------------------------------------------------------------------
(* data.condavg, lines 265-285: defaults, allocation, reference *)

(* mutant of set_defaults: every unset bound is defaulted on its own *)
set_defaults_each(o, cur) ==
    LET o1 == [o EXCEPT !.t1 = IF IsNone(@) THEN Some(0) ELSE @,
                        !.t2 = IF IsNone(@) THEN Some(Shape0(cur)) ELSE @]
    IN  [o1 EXCEPT !.bt1 = IF IsNone(@) THEN o1.t1 ELSE @,
                   !.bt2 = IF IsNone(@) THEN o1.t2 ELSE @]

(* lines 266-273: the defaults are stored on the params object *)
set_defaults(o, cur) ==
    LET o1 == IF IsNone(o.t1) /\ IsNone(o.t2)
              THEN [o EXCEPT !.t1 = Some(0), !.t2 = Some(Shape0(cur))]
              ELSE o
    IN  IF IsNone(o1.bt1) /\ IsNone(o1.bt2)
        THEN [o1 EXCEPT !.bt1 = o1.t1, !.bt2 = o1.t2]
        ELSE o1

(* line 278: t2 - t1 raises TypeError when one of them is None, and       *)
(* np.zeros raises ValueError for a negative dimension                    *)
alloc_exc(o) ==
    IF IsNone(o.t1) \/ IsNone(o.t2) THEN "TypeError"
    ELSE IF Val(o.t2) - Val(o.t1) < 0 THEN "ValueError"
    ELSE ""

(* lines 278-281 *)
new_curr_arr(o) ==
    [s \in Steps(o) |-> [h \in Shots(o) |-> Zeros(Val(o.t2) - Val(o.t1))]]
new_skip_arr(o) == [s \in Steps(o) |-> 0]

(* mutant of select_bref: the reference is cut to the analysis window *)
select_bref_window(o, bin, brefArg, refArg) ==
    LET ref == IF IsNone(refArg) THEN <<0, 0>> ELSE Val(refArg)
    IN  IF IsNone(brefArg)
        THEN Slice(bin[ref[1]][ref[2]], o.t1, o.t2)
        ELSE Val(brefArg)

(* lines 274-275 and 284-285 *)
select_bref(o, bin, brefArg, refArg) ==
    LET ref == IF IsNone(refArg) THEN <<0, 0>> ELSE Val(refArg)
    IN  IF IsNone(brefArg)
        THEN Slice(bin[ref[1]][ref[2]], o.bt1, o.bt2)
        ELSE Val(brefArg)

(* the explicit reference a caller may pass: a pulse delayed by one       *)
(* sample, of the length of the correlation window                        *)
ExplicitBref(o, nt) == Slice(Roll(Pulse(nt), 1), o.bt1, o.bt2)

NoCalls(o) == [s \in Steps(o) |-> [h \in Shots(o) |-> None]]

---------------------------------------------------------------------------
(* lines 292-299: the body of the shot loop, as an effect on the arrays   *)
(* it can reach (bint, curr, bref, curr_arr) and on skips                 *)

(* mutant of shot_body: the current trace is rolled in place *)
shot_body_inplace(o, heap, s, h) ==
    LET bsig == Slice(heap.bint[s][h], o.bt1, o.bt2)
        xlag == lagtime(heap.bref, bsig, ThresholdPct)
        src == IF IsNone(xlag) THEN <<>>
               ELSE Roll(Slice(heap.curr[s][h], o.t1, o.t2), -Val(xlag))
        n == Len(heap.curr_arr[s][h])
        call == [bref |-> heap.bref, bsig |-> bsig,
                 threshold |-> ThresholdPct, xlag |-> xlag]
    IN  IF IsNone(xlag)
        THEN [heap |-> heap, skipinc |-> 1, exc |-> "", call |-> call]
        ELSE IF CanAssign(n, src)
        THEN [heap |-> [heap EXCEPT !.curr_arr[s][h] = Assigned(n, src),
                                    !.curr[s][h] = Roll(@, -Val(xlag))],
              skipinc |-> 0, exc |-> "", call |-> call]
        ELSE [heap |-> heap, skipinc |-> 0, exc |-> "ValueError",
              call |-> call]

shot_body(o, heap, s, h) ==
    LET bsig == Slice(heap.bint[s][h], o.bt1, o.bt2)
        xlag == lagtime(heap.bref, bsig, ThresholdPct)
        src == IF IsNone(xlag) THEN <<>>
               ELSE Roll(Slice(heap.curr[s][h], o.t1, o.t2), -Val(xlag))
        n == Len(heap.curr_arr[s][h])
        call == [bref |-> heap.bref, bsig |-> bsig,
                 threshold |-> ThresholdPct, xlag |-> xlag]
    IN  IF IsNone(xlag)
        THEN [heap |-> heap, skipinc |-> 1, exc |-> "", call |-> call]
        ELSE IF CanAssign(n, src)
        THEN [heap |-> [heap EXCEPT !.curr_arr[s][h] = Assigned(n, src)],
              skipinc |-> 0, exc |-> "", call |-> call]
        ELSE [heap |-> heap, skipinc |-> 0, exc |-> "ValueError",
              call |-> call]

(* mutant of store_skips: the count is written to every step's entry *)
store_skips_all(sk, s, n) == [t \in DOMAIN sk |-> n]

(* line 300 *)
store_skips(sk, s, n) == [sk EXCEPT ![s] = n]

---------------------------------------------------------------------------
(* lines 302-310: factor and mean, as exact fractions *)

(* mutant of factor: the mean is not renormalised *)
factor_one(o, skip) == [num |-> 1, den |-> 1]

(* mutant of factor: the all-rejected guard is missing *)
factor_unguarded(o, skip) == [num |-> o.nshots, den |-> o.nshots - skip]

factor(o, skip) ==
    IF o.nshots - skip > 0
    THEN [num |-> o.nshots, den |-> o.nshots - skip]
    ELSE [num |-> 0, den |-> 1]

ShotSum(o, ca, s, j) == SeqSum([k \in 1 .. o.nshots |-> ca[s][k - 1][j]])

(* np.mean(curr_arr, axis=2) * factor *)
mean_condavg_curr(o, ca, sk) ==
    [s \in Steps(o) |->
        [j \in 1 .. Len(ca[s][0]) |->
            [num |-> ShotSum(o, ca, s, j) * factor(o, sk[s]).num,
             den |-> o.nshots * factor(o, sk[s]).den]]]

(* line 315: the returned tuple *)
condavg_return(o, ca, sk, br) == <<mean_condavg_curr(o, ca, sk), br>>

---------------------------------------------------------------------------
(* The session *)

(* no condavg call is under way *)
Idle ==
    /\ obj0 = None
    /\ pc = "idle"
    /\ bint = None /\ curr = None /\ bref_arg = None /\ ref_arg = None
    /\ bref = None /\ curr_arr = None /\ skip_arr = None
    /\ step = None /\ skips = 0 /\ shots_done = {} /\ steps_done = {}
    /\ lagcalls = None /\ ret = None /\ exc = ""
    /\ want = None

Init ==
    /\ \E ns \in 1 .. MaxSteps, nh \in 1 .. MaxShots : obj = params(ns, nh)
    /\ Idle
    /\ fn = "" /\ fargs = None /\ res = None

Locals == <<bref, curr_arr, skip_arr, step, skips, shots_done, steps_done,
            lagcalls>>
Args == <<bint, curr, bref_arg, ref_arg>>
Pure == <<fn, fargs, res>>
Session == <<obj, obj0, pc, Args, Locals, ret, exc, want>>

(* the caller sets the analysis times between two condavg calls, with     *)
(* arguments <<t1, t2, bt1, bt2>> drawn from A                            *)
SetTimeFrom(A) ==
    /\ pc = "idle"
    /\ \E a \in A : obj' = set_time(obj, a[1], a[2], a[3], a[4])
    /\ UNCHANGED <<obj0, pc, Args, Locals, ret, exc, want, Pure>>

SetTime == SetTimeFrom(TimeArgs)

(* the lag thresholds a caller may want, in percent: the one condavg     *)
(* uses and a stricter one                                                *)
WantedPct == {ThresholdPct, ThresholdPct + 10}

(* condavg is called: lines 265-285.  The dataset is of a kind in Kinds   *)
(* with nt in Nts samples; bref is passed if explicit, ref (the last step *)
(* and shot) if withRef.  The caller wants a lag threshold in Wanted, for *)
(* which condavg(self, bint, curr, bref=None, ref=None) has no parameter. *)
CallFrom(Kinds, Nts, Explicit, WithRef, Wanted) ==
    /\ pc = "idle"
    /\ \E w \in Wanted : want' = Some(w)
    /\ UNCHANGED Pure
    /\ \E kind \in Kinds, nt \in Nts, explicit \in Explicit,
          withRef \in WithRef :
          LET refArg == IF withRef
                        THEN Some(<<obj.nsteps - 1, obj.nshots - 1>>)
                        ELSE None
              bin == BDataset(kind, nt, obj)
              cur == CDataset(kind, nt, obj)
              o == set_defaults(obj, cur)
              brefArg == IF explicit THEN Some(ExplicitBref(o, nt)) ELSE None
          IN  /\ bint' = bin
              /\ curr' = cur
              /\ bref_arg' = brefArg
              /\ ref_arg' = refArg
              /\ obj' = o
              /\ obj0' = Some(obj)
              /\ ret' = None
              /\ step' = None /\ skips' = 0
              /\ shots_done' = {} /\ steps_done' = {}
              /\ lagcalls' = NoCalls(o)
              /\ IF alloc_exc(o) # ""
                 THEN /\ pc' = "raised"
                      /\ exc' = alloc_exc(o)
                      /\ UNCHANGED <<bref, curr_arr, skip_arr>>
                 ELSE /\ pc' = "loop"
                      /\ exc' = ""
                      /\ curr_arr' = new_curr_arr(o)
                      /\ skip_arr' = new_skip_arr(o)
                      /\ bref' = select_bref(o, bin, brefArg, refArg)

(* a caller content with the threshold condavg uses *)
Call == CallFrom(DataKinds, NtVals, BOOLEAN, BOOLEAN, {ThresholdPct})

(* line 287-288: the outer loop enters step s *)
StepBegin(s) ==
    /\ pc = "loop" /\ step = None
    /\ s \in Steps(obj) \ steps_done
    /\ step' = Some(s)
    /\ skips' = 0
    /\ shots_done' = {}
    /\ UNCHANGED <<obj, obj0, pc, Args, bref, curr_arr, skip_arr, steps_done,
                   lagcalls, ret, exc, want, Pure>>

(* mutant of ShotIter: the shifted trace goes to the next free slot of the *)
(* step instead of the shot's own slot                                    *)
ShotIterAppend(h) ==
    /\ pc = "loop" /\ step # None
    /\ h \in Shots(obj) \ shots_done
    /\ LET s == Val(step)
           r == shot_body(obj, [bint |-> bint, curr |-> curr, bref |-> bref,
                                curr_arr |-> curr_arr], s, h)
       IN  /\ bint' = r.heap.bint
           /\ curr' = r.heap.curr
           /\ bref' = r.heap.bref
           /\ curr_arr' = [curr_arr EXCEPT ![s][Cardinality(shots_done)] =
                                              r.heap.curr_arr[s][h]]
           /\ skips' = skips + r.skipinc
           /\ lagcalls' = [lagcalls EXCEPT ![s][h] = Some(r.call)]
           /\ shots_done' = shots_done \cup {h}
           /\ exc' = r.exc
           /\ pc' = IF r.exc # "" THEN "raised" ELSE "loop"
    /\ UNCHANGED <<obj, obj0, bref_arg, ref_arg, skip_arr, step, steps_done,
                   ret, want, Pure>>

(* lines 289-299: one iteration of the inner loop *)
ShotIter(h) ==
    /\ pc = "loop" /\ step # None
    /\ h \in Shots(obj) \ shots_done
    /\ LET s == Val(step)
           r == shot_body(obj, [bint |-> bint, curr |-> curr, bref |-> bref,
                                curr_arr |-> curr_arr], s, h)
       IN  /\ bint' = r.heap.bint
           /\ curr' = r.heap.curr
           /\ bref' = r.heap.bref
           /\ curr_arr' = r.heap.curr_arr
           /\ skips' = skips + r.skipinc
           /\ lagcalls' = [lagcalls EXCEPT ![s][h] = Some(r.call)]
           /\ shots_done' = shots_done \cup {h}
           /\ exc' = r.exc
           /\ pc' = IF r.exc # "" THEN "raised" ELSE "loop"
    /\ UNCHANGED <<obj, obj0, bref_arg, ref_arg, skip_arr, step, steps_done,
                   ret, want, Pure>>

(* line 300: the inner loop is over *)
StepEnd ==
    /\ pc = "loop" /\ step # None
    /\ shots_done = Shots(obj)
    /\ skip_arr' = store_skips(skip_arr, Val(step), skips)
    /\ steps_done' = steps_done \cup {Val(step)}
    /\ step' = None
    /\ UNCHANGED <<obj, obj0, pc, Args, bref, curr_arr, skips, shots_done,
                   lagcalls, ret, exc, want, Pure>>

(* lines 302-315: the loops are over; factor, mean, return *)
Finish ==
    /\ pc = "loop" /\ step = None
    /\ steps_done = Steps(obj)
    /\ ret' = Some(condavg_return(obj, curr_arr, skip_arr, bref))
    /\ pc' = "done"
    /\ UNCHANGED <<obj, obj0, Args, Locals, exc, want, Pure>>

(* the caller takes the result (or the exception); the call's frame ends *)
Release ==
    /\ pc \in {"done", "raised"}
    /\ pc' = "idle"
    /\ bint' = None /\ curr' = None /\ bref_arg' = None /\ ref_arg' = None
    /\ bref' = None /\ curr_arr' = None /\ skip_arr' = None
    /\ step' = None /\ skips' = 0 /\ shots_done' = {} /\ steps_done' = {}
    /\ lagcalls' = None /\ ret' = None /\ exc' = ""
    /\ obj0' = None
    /\ want' = None
    /\ UNCHANGED <<obj, Pure>>

(* range(nsteps), range(nshots): ascending order *)
StepSeq ==
    \E s \in Steps(obj) \ steps_done :
        s = Min(Steps(obj) \ steps_done) /\ StepBegin(s)
ShotSeq ==
    \E h \in Shots(obj) \ shots_done :
        h = Min(Shots(obj) \ shots_done) /\ ShotIter(h)

Next ==
    \/ SetTime
    \/ Call
    \/ StepSeq
    \/ ShotSeq
    \/ StepEnd
    \/ Finish
    \/ Release

Spec == Init /\ [][Next]_vars

(* the same loops iterated in an arbitrary order, in sessions of fewer    *)
(* windows and without an explicit reference                              *)
StepAny == \E s \in Steps(obj) : StepBegin(s)
ShotAny == \E h \in Shots(obj) : ShotIter(h)

FewTimeArgs ==
    {<<Some(1), Some(MaxNt), None, None>>,
     <<None, None, Some(0), Some(MaxNt - 1)>>}
SetTimeFew == SetTimeFrom(FewTimeArgs)
CallFew == CallFrom(DataKinds, NtVals, {FALSE}, BOOLEAN, {ThresholdPct})

NextAnyOrder ==
    \/ SetTimeFew
    \/ CallFew
    \/ StepAny
    \/ ShotAny
    \/ StepEnd
    \/ Finish
    \/ Release

SpecAnyOrder == Init /\ [][NextAnyOrder]_vars

(* sessions of callers that want one threshold or another, the loops in   *)
(* code order, without an explicit reference                              *)
CallWanted == CallFrom(DataKinds, NtVals, {FALSE}, BOOLEAN, WantedPct)

NextWanted ==
    \/ SetTimeFew
    \/ CallWanted
    \/ StepSeq
    \/ ShotSeq
    \/ StepEnd
    \/ Finish
    \/ Release

SpecWanted == Init /\ [][NextWanted]_vars

---------------------------------------------------------------------------
(* fname_tds.py.  A call number is <<"int", n>> or <<"str", s>>; the host   *)
(* name is what socket.gethostname() returns.                              *)

dir1 == "/BAPSF_Data/LaB6_Cathode/HighFreq_FluxRope/"
dir2 == "/BAPSF_Data/LaB6_Cathode/HighFreq_FluxRope2/"
dir3 == "/BAPSF_Data/LaB6_Cathode/TDS_FluxRopes/"
dir4 == "/BAPSF_Data/TDS/May_18/"
dir5 == "/BAPSF_Data/TDS/18_July/"
dir6 == "/BAPSF_Data/TDS/18_Nov/"
dir7 == "/BAPSF_Data/TDS/19_Apr/"
dir8 == "/BAPSF_Data/TDS/19_July/"
dir9 == "/BAPSF_Data/TDS/21_Feb/"
dirA == "/data_old/BAPSF_Data/LaB6_Cathode/FluxRopes_2_14/"
dirS == "/BAPSF_Data/LaB6_Cathode/Single5cmFluxRope/"

(* the dictionary filenames: call number -> [subdir, fname] *)
filenames ==
    <<"str", "test">> :> <<dirS, "I75_V100_Bz330_B24_B45_M35_Plane_2014_05_24_926AM.hdf5">> @@
    <<"int", 101>> :> <<dir1, "Line_NoFR_EBp40_12_15.hdf5">> @@
    <<"int", 102>> :> <<dir1, "Line_EBp40_12_14.hdf5">> @@
    <<"int", 103>> :> <<dir1, "XZ_12_15.hdf5">> @@
    <<"int", 104>> :> <<dir1, "XZ_12_16.hdf5">> @@
    <<"int", 105>> :> <<dir1, "XZ_12_20.hdf5">> @@
    <<"int", 106>> :> <<dir1, "XY_1_3.hdf5">> @@
    <<"int", 107>> :> <<dir1, "XY_1_4.hdf5">> @@
    <<"int", 108>> :> <<dir1, "XY_1_5.hdf5">> @@
    <<"int", 109>> :> <<dir1, "01-Efield-plane-NoFR-p33.hdf5">> @@
    <<"int", 110>> :> <<dir1, "02-Efield-plane-NoFR-p33-330G.hdf5">> @@
    <<"int", 201>> :> <<dir2, "Plane_EP35_B29_May2.hdf5">> @@
    <<"int", 202>> :> <<dir2, "Plane_V32_V33_V35_May4.hdf5">> @@
    <<"int", 203>> :> <<dir2, "Lang_line_port42.hdf5">> @@
    <<"int", 301>> :> <<dir3, "01_Bplane31.hdf5">> @@
    <<"int", 303>> :> <<dir3, "03_Bline31_refprobe.hdf5">> @@
    <<"int", 304>> :> <<dir3, "04_Bplane31_refprobe.hdf5">> @@
    <<"int", 306>> :> <<dir3, "06_Bplane31_refprobe_coherent.hdf5">> @@
    <<"int", 305>> :> <<dir3, "05_BrefprobeTest.hdf5">> @@
    <<"int", 307>> :> <<dir3, "07_TDSpotentialA1_perp_move3.hdf5">> @@
    <<"int", 308>> :> <<dir3, "08_TDSpotentialA1_parallel_Bplane31.hdf5">> @@
    <<"int", 309>> :> <<dir3, "09_TDSpotentialA1_parallel_Bplane31_Isatsweep29.hdf5">> @@
    <<"int", 401>> :> <<dir4, "01_Bdot45_Dipole30_plane.hdf5">> @@
    <<"int", 402>> :> <<dir4, "02a_Dipole30_line.hdf5">> @@
    <<"int", 403>> :> <<dir4, "02b_Dipole30_line_noLaB6.hdf5">> @@
    <<"int", 404>> :> <<dir4, "04_Dipole30_line_varyI_1360A.hdf5">> @@
    <<"int", 405>> :> <<dir4, "05_Dipole30_line_varyI_1215A.hdf5">> @@
    <<"int", 406>> :> <<dir4, "06_Dipole30_line_varyI_1125A.hdf5">> @@
    <<"int", 407>> :> <<dir4, "07_Dipole30_line_varyI_985A.hdf5">> @@
    <<"int", 408>> :> <<dir4, "08_Dipole30_line_varyI_838A.hdf5">> @@
    <<"int", 410>> :> <<dir4, "10_Dipole30_line_varyI_705A.hdf5">> @@
    <<"int", 411>> :> <<dir4, "11_Dipole30_line_varyI_565A.hdf5">> @@
    <<"int", 412>> :> <<dir4, "12_Dipole30_line_varyI_442A.hdf5">> @@
    <<"int", 413>> :> <<dir4, "13_Dipole30_line_varyI_305A.hdf5">> @@
    <<"int", 414>> :> <<dir4, "14_Dipole30_line_varyI_240A.hdf5">> @@
    <<"int", 415>> :> <<dir4, "15_Dipole30_line_varyI_140A.hdf5">> @@
    <<"int", 409>> :> <<dir4, "09_Bdot37_Dipole30_plane.hdf5">> @@
    <<"int", 420>> :> <<dir4, "20_Dipole30_EB27_FR1000G_test.hdf5">> @@
    <<"int", 421>> :> <<dir4, "21_Bdot37_Dipole30_EB27.hdf5">> @@
    <<"int", 422>> :> <<dir4, "22_Dipole30_EB27_FR800G_test.hdf5">> @@
    <<"int", 423>> :> <<dir4, "23_Dipole30_EB27_FR1000G.hdf5">> @@
    <<"int", 424>> :> <<dir4, "24_Dipole30_EB27_FR800G.hdf5">> @@
    <<"int", 425>> :> <<dir4, "25_Bdot37_Dipole30_EB27_FR1000G_plane.hdf5">> @@
    <<"int", 426>> :> <<dir4, "26_Mach32_EB27_FR1000G_bank200V.hdf5">> @@
    <<"int", 427>> :> <<dir4, "27_Mach32_EB27_FR1000G_bank175V.hdf5">> @@
    <<"int", 428>> :> <<dir4, "28_Mach32_EB27_FR1000G_bank150V.hdf5">> @@
    <<"int", 429>> :> <<dir4, "29_Mach32_EB27_FR1000G_bank125V.hdf5">> @@
    <<"int", 430>> :> <<dir4, "30_Mach32_EB27_FR1000G_bank100V.hdf5">> @@
    <<"int", 431>> :> <<dir4, "31_Mach32_EB27_FR1000G_bank75V.hdf5">> @@
    <<"int", 432>> :> <<dir4, "32_Mach32_EB27_FR1000G_bank150V(restart).hdf5">> @@
    <<"int", 433>> :> <<dir4, "33_Mach32_EB27_FR1000G_bank175V(restart).hdf5">> @@
    <<"int", 434>> :> <<dir4, "34_Bdot37_Mach32_EB27_FR800G_bank200V.hdf5">> @@
    <<"int", 436>> :> <<dir4, "36_Bdot37_Mach32_EB27_FR500G_bank200V_planeII.hdf5">> @@
    <<"int", 435>> :> <<dir4, "35_Bdot37_Mach32_EB27_FR500G_bank200V.hdf5">> @@
    <<"int", 437>> :> <<dir5, "A1_amplifier_test 2018-07-18.hdf5">> @@
    <<"int", 438>> :> <<dir5, "A2_amplifier_test 2018-07-18.hdf5">> @@
    <<"int", 440>> :> <<dir5, "01_Bmov35_41_45_Bfix30_32 2018-07-07.hdf5">> @@
    <<"int", 441>> :> <<dir5, "02_Bmov33_41_43_Bfix30_32 2018-07-09.hdf5">> @@
    <<"int", 442>> :> <<dir5, "03_Bmov29_37_Bfix30_32 2018-07-10.hdf5">> @@
    <<"int", 443>> :> <<dir5, "04_Bmov29_37_39_Bfix30_32 2018-07-17.hdf5">> @@
    <<"int", 444>> :> <<dir5, "05_Bmov19_25_27_Bfix30_32 2018-07-18.hdf5">> @@
    <<"int", 450>> :> <<dir5, "11_EB34_Bmov27_1000G_940A.hdf5">> @@
    <<"int", 451>> :> <<dir5, "12_EB34_Bmov27_800G_770A.hdf5">> @@
    <<"int", 452>> :> <<dir5, "13_EB34_Bmov27_600G_470A.hdf5">> @@
    <<"int", 453>> :> <<dir5, "14_EB34_Bmov27_400G_395A.hdf5">> @@
    <<"int", 454>> :> <<dir5, "15_EB34_Bmov27_1000G_940A_plane.hdf5">> @@
    <<"int", 455>> :> <<dir5, "16_EB34_Bmov27_1000G_725A.hdf5">> @@
    <<"int", 456>> :> <<dir5, "17_EB34_Bmov27_1000G_475A.hdf5">> @@
    <<"int", 501>> :> <<dir6, "01_Bmov_40_37_Vfloat_34.hdf5">> @@
    <<"int", 502>> :> <<dir6, "02_Bmov_40_37_Vfloat_34.hdf5">> @@
    <<"int", 503>> :> <<dir6, "03_Bmov_45_37_Vfloat_34_short.hdf5">> @@
    <<"int", 504>> :> <<dir6, "03b_Bmov_45_37_Vfloat_34_short.hdf5">> @@
    <<"int", 505>> :> <<dir6, "04_Bmov_45_37_Vfloat_34.hdf5">> @@
    <<"int", 506>> :> <<dir6, "05_Bmov27_EB31.hdf5">> @@
    <<"int", 507>> :> <<dir6, "06_Bmov27_EB31_short.hdf5">> @@
    <<"int", 510>> :> <<dir6, "10_line_Bmov27_EB31_1290A_2018-11-20_16.45.23.hdf5">> @@
    <<"int", 511>> :> <<dir6, "11_line_Bmov27_EB31_1440A_2018-11-20_17.23.45.hdf5">> @@
    <<"int", 512>> :> <<dir6, "12_line_Bmov27_EB31_900A_2018-11-20_18.53.36.hdf5">> @@
    <<"int", 513>> :> <<dir6, "13_line_Bmov27_EB31_540A_2018-11-20_19.40.46.hdf5">> @@
    <<"int", 521>> :> <<dir6, "21_line_Bmov27_EB31_1440A_2018-11-20_18.10.25.hdf5">> @@
    <<"int", 530>> :> <<dir6, "30_Bmov_33_27_EB31_2018-11-20_21.44.33.hdf5">> @@
    <<"int", 531>> :> <<dir6, "31_Bmov_33_27_EB31_short_2018-11-21_14.20.28.hdf5">> @@
    <<"int", 532>> :> <<dir6, "32_Bmov_33_27_EB31_1010A_2018-11-21_18.00.40.hdf5">> @@
    <<"int", 533>> :> <<dir6, "33_Bmov_33_27_EB31_610A_2018-11-22_13.07.49.hdf5">> @@
    <<"int", 551>> :> <<dir7, "01_Bmov_43_31.hdf5">> @@
    <<"int", 552>> :> <<dir7, "02_Bmov_43_31_line.hdf5">> @@
    <<"int", 553>> :> <<dir7, "03_Bmov_43_31_line_2.hdf5">> @@
    <<"int", 554>> :> <<dir7, "04_TDSdipole38_37_XZ.hdf5">> @@
    <<"int", 555>> :> <<dir7, "05_Bmov_43(2).hdf5">> @@
    <<"int", 556>> :> <<dir7, "06_TDSdipole38_37_XYZ.hdf5">> @@
    <<"int", 557>> :> <<dir7, "07_TDSdipole38_37_XYZ_1kG.hdf5">> @@
    <<"int", 558>> :> <<dir7, "08_Bmov_43_31.hdf5">> @@
    <<"int", 559>> :> <<dir7, "09_TDSdipole38_37_XYZ_500G.hdf5">> @@
    <<"int", 560>> :> <<dir7, "10_Bmov_43_line.hdf5">> @@
    <<"int", 561>> :> <<dir7, "11_Bmov_43_31_500G.hdf5">> @@
    <<"int", 562>> :> <<dir7, "12_TDSdipole38_37_XYZ_500G_lite.hdf5">> @@
    <<"int", 563>> :> <<dir7, "13_Bmov_43_31_500G_lite_restart.hdf5">> @@
    <<"int", 601>> :> <<dir8, "01_Bmov33_39_Bfix32_41.hdf5">> @@
    <<"int", 602>> :> <<dir8, "02_Bmov31_37_Bfix32_42.hdf5">> @@
    <<"int", 603>> :> <<dir8, "03_Bmov29_31_Bfix32_42.hdf5">> @@
    <<"str", "603a">> :> <<dir8, "03_amplifier pickup.hdf5">> @@
    <<"int", 604>> :> <<dir8, "04_Bmov35_37_Bfix32_42.hdf5">> @@
    <<"str", "604a">> :> <<dir8, "04_amplifier pickup.hdf5">> @@
    <<"int", 605>> :> <<dir8, "05_Bmov41_45_Bfix32_42.hdf5">> @@
    <<"int", 606>> :> <<dir8, "06_Bmov27_43_Bfix32_42.hdf5">> @@
    <<"str", "606a">> :> <<dir8, "06_amplifier pickup.hdf5">> @@
    <<"int", 607>> :> <<dir8, "07_Bmov25_31_Bfix32_42.hdf5">> @@
    <<"int", 621>> :> <<dir8, "21_Mach35_41_Bfix32_41.hdf5">> @@
    <<"int", 622>> :> <<dir8, "22_Mach33_39_Bfix32_42.hdf5">> @@
    <<"int", 623>> :> <<dir8, "23_Mach31_37_Bfix32_42.hdf5">> @@
    <<"int", 624>> :> <<dir8, "24_Mach29_45_Bfix32_42.hdf5">> @@
    <<"int", 625>> :> <<dir8, "25_Mach27_43_Bmov31_Bfix32_42_aborted.hdf5">> @@
    <<"int", 700>> :> <<dir9, "00_get_SIScrate_offsets.hdf5">> @@
    <<"int", 701>> :> <<dir9, "01_newLaB6_intialize.hdf5">> @@
    <<"int", 702>> :> <<dir9, "02_fluxrope_100V_Isat34_Bdot37.hdf5">> @@
    <<"int", 703>> :> <<dir9, "03_fluxrope_80V_Isat34_Bdot37.hdf5">> @@
    <<"str", "704a">> :> <<dir9, "04a_fluxrope_120V_Bdot37.hdf5">> @@
    <<"int", 704>> :> <<dir9, "04_fluxrope_120V_Isat34_Bdot37.hdf5">> @@
    <<"str", "705a">> :> <<dir9, "05a_fluxrope_120V_Bdot31.hdf5">> @@
    <<"str", "705b">> :> <<dir9, "05b_fluxrope_70V_Bdot31.hdf5">> @@
    <<"str", "705c">> :> <<dir9, "05c_fluxrope_80V_Bdot31.hdf5">> @@
    <<"str", "705d">> :> <<dir9, "05d_fluxrope_90V_Bdot31.hdf5">> @@
    <<"str", "705e">> :> <<dir9, "05e_fluxrope_100V_Bdot31.hdf5">> @@
    <<"str", "705f">> :> <<dir9, "05f_fluxrope_110V_Bdot31.hdf5">> @@
    <<"str", "705g">> :> <<dir9, "05g_fluxrope_130V_Bdot31.hdf5">> @@
    <<"str", "705h">> :> <<dir9, "05h_fluxrope_140V_Bdot31.hdf5">> @@
    <<"int", 706>> :> <<dir9, "06_fluxrope_140V_Bdot37.hdf5">> @@
    <<"int", 707>> :> <<dir9, "07_fluxrope_120V_Bdot45.hdf5">> @@
    <<"int", 710>> :> <<dir9, "10_fluxrope_120V_RFEA34.hdf5">> @@
    <<"int", 711>> :> <<dir9, "11_fluxrope_120V_RFEA34.hdf5">> @@
    <<"int", 712>> :> <<dir9, "12_fluxrope_120V_RFEA34.hdf5">> @@
    <<"int", 713>> :> <<dir9, "13_fluxrope_120V_RFEA34.hdf5">> @@
    <<"int", 714>> :> <<dir9, "14_fluxrope_120V_RFEA34_up.hdf5">> @@
    <<"int", 715>> :> <<dir9, "15_fluxrope_120V_RFEA34_down.hdf5">> @@
    <<"int", 716>> :> <<dir9, "16_fluxrope_120V_RFEA34_NE.hdf5">> @@
    <<"int", 717>> :> <<dir9, "17_fluxrope_120V_RFEA34_NW.hdf5">> @@
    <<"int", 719>> :> <<dir9, "19_fluxrope_120V_RFEA34_SW.hdf5">> @@
    <<"str", "720b">> :> <<dir9, "20_fluxrope_120V_RFEA34_line_posy (stopped).hdf5">> @@
    <<"int", 720>> :> <<dir9, "20_fluxrope_120V_RFEA34_line_posy.hdf5">> @@
    <<"int", 721>> :> <<dir9, "21_fluxrope_120V_RFEA34_line_negy.hdf5">> @@
    <<"int", 722>> :> <<dir9, "22_fluxrope_120V_RFEA34_line_posx.hdf5">> @@
    <<"str", "723b">> :> <<dir9, "23_fluxrope_120V_RFEA34_line_negx (stopped).hdf5">> @@
    <<"int", 723>> :> <<dir9, "23_fluxrope_120V_RFEA34_line_negx.hdf5">> @@
    <<"int", 724>> :> <<dir9, "24_fluxrope_120V_RFEA34_plane_600mV.hdf5">> @@
    <<"int", 725>> :> <<dir9, "25_fluxrope_120V_RFEA34_plane_700mV.hdf5">> @@
    <<"int", 726>> :> <<dir9, "26_fluxrope_120V_RFEA34_plane_500mV.hdf5">> @@
    <<"int", 727>> :> <<dir9, "27_fluxrope_120V_RFEA34_plane_550mV (stopped).hdf5">> @@
    <<"int", 728>> :> <<dir9, "28_fluxrope_120V_RFEA34_plane_650mV.hdf5">> @@
    <<"int", 729>> :> <<dir9, "29_fluxrope_80V_RFEA34.hdf5">> @@
    <<"int", 730>> :> <<dir9, "30_fluxrope_80V_RFEA34_plane_525mV.hdf5">> @@
    <<"int", 731>> :> <<dir9, "31_fluxrope_80V_RFEA34_2point.hdf5">> @@
    <<"str", "732b">> :> <<dir9, "32_fluxrope_120V_RFEA45 (stopped).hdf5">> @@
    <<"int", 732>> :> <<dir9, "32_fluxrope_120V_RFEA45_restart.hdf5">> @@
    <<"int", 733>> :> <<dir9, "33_fluxrope_120V_RFEA45_edge_2point.hdf5">> @@
    <<"int", 734>> :> <<dir9, "34_fluxrope_120V_dipole34_plane.hdf5">> @@
    <<"int", 735>> :> <<dir9, "35_fluxrope_120V_RFEA45_2point.hdf5">> @@
    <<"int", 736>> :> <<dir9, "36_fluxrope_120V_RFEA45_plane_600mV.hdf5">> @@
    <<"int", 741>> :> <<dir9, "41_fluxrope_Bmov35_Bfix25_line.hdf5">> @@
    <<"int", 742>> :> <<dir9, "42_fluxrope_Bmov35_Bfix25_plane.hdf5">> @@
    <<"int", 743>> :> <<dir9, "43_fluxrope_Bmov35_Bfix25_line.hdf5">> @@
    <<"int", 744>> :> <<dir9, "44_fluxrope_Bmov43_Bfix25_line.hdf5">> @@
    <<"str", "745a">> :> <<dir9, "45_fluxrope_Bmov43_Bfix25_plane_1of6.hdf5">> @@
    <<"str", "745b">> :> <<dir9, "45_fluxrope_Bmov43_Bfix25_plane_2of6.hdf5">> @@
    <<"str", "745c">> :> <<dir9, "45_fluxrope_Bmov43_Bfix25_plane_3of6.hdf5">> @@
    <<"str", "745d">> :> <<dir9, "45_fluxrope_Bmov43_Bfix25_plane_4of6.hdf5">> @@
    <<"str", "745e">> :> <<dir9, "45_fluxrope_Bmov43_Bfix25_plane_5of6.hdf5">> @@
    <<"str", "745f">> :> <<dir9, "45_fluxrope_Bmov43_Bfix25_plane_6of6.hdf5">> @@
    <<"int", 746>> :> <<dir9, "46_fluxrope_RFEA30.hdf5">> @@
    <<"int", 747>> :> <<dir9, "47_fluxrope_RFEA30.hdf5">> @@
    <<"int", 748>> :> <<dir9, "48_fluxrope_RFEA30_Bmov38_Bfix25.hdf5">> @@
    <<"str", "749a">> :> <<dir9, "49_fluxrope_RFEA30_Bfix38_Bmov25_1of2.hdf5">> @@
    <<"str", "749b">> :> <<dir9, "49_fluxrope_RFEA30_Bfix38_Bmov25_2of2.hdf5">> @@
    <<"int", 750>> :> <<dir9, "50_fluxrope_RFEA30_Bfix38_Bmov19.hdf5">> @@
    <<"str", "A01">> :> <<dirA, "Emissive_probe_setup 2014-01-30 17.33.32.hdf5">> @@
    <<"str", "A02">> :> <<dirA, "Emissive_probe_setup.hdf5">> @@
    <<"str", "A03">> :> <<dirA, "xline_HotSweeps_p19.hdf5">> @@
    <<"str", "A04">> :> <<dirA, "xline_ColdSweeps_p44.hdf5">> @@
    <<"str", "A05">> :> <<dirA, "xline_ColdSweeps_p19.hdf5">> @@
    <<"str", "A06">> :> <<dirA, "xline_HotSweeps_p44.hdf5">> @@
    <<"str", "A10">> :> <<dirA, "Plane_Bp40_Ep30_51x51.hdf5">> @@
    <<"str", "A11">> :> <<dirA, "Plane_Bp36_Ep31.hdf5">> @@
    <<"str", "A12">> :> <<dirA, "Plane_Bp34_Ep32.hdf5">> @@
    <<"str", "A13">> :> <<dirA, "Plane_Bp30_Ep33.hdf5">> @@
    <<"str", "A14">> :> <<dirA, "Plane_Bp28_Ep33.hdf5">> @@
    <<"str", "A15">> :> <<dirA, "Plane_Bp24_Ep34.hdf5">> @@
    <<"str", "A16">> :> <<dirA, "Plane_Bp42_Ep27.hdf5">> @@
    <<"str", "A17">> :> <<dirA, "Plane_Bp22_Ep19.hdf5">> @@
    <<"str", "A18">> :> <<dirA, "Plane_Bp20_Ep44.hdf5">> @@
    <<"str", "A19">> :> <<dirA, "Plane_Ep28.hdf5">> @@
    <<"str", "A20">> :> <<dirA, "Plane_Bp26_Ep29.hdf5">>

(* filenames.get(callnumber, ''): None stands for the default '' *)
filenames_get(callnumber) ==
    IF callnumber \in DOMAIN filenames THEN Some(filenames[callnumber])
    ELSE None

(* lines 13-22 *)
datafolder(host, old) ==
    IF host = "midas"
    THEN IF old = 1 THEN "/data_old" ELSE "/data"
    ELSE IF old = 1 THEN "/data" ELSE "/data_new"

(* mutant of fname_tds: the table is indexed, filenames[callnumber] *)
fname_tds_index(callnumber, full, old, host) ==
    IF callnumber \notin DOMAIN filenames
    THEN [exc |-> "KeyError", value |-> None, printed |-> FALSE]
    ELSE LET subdir == filenames[callnumber][1]
             fname == filenames[callnumber][2]
         IN  [exc |-> "",
              value |-> Some(IF full = 0 THEN fname
                             ELSE IF subdir \in {dirA} THEN subdir \o fname
                             ELSE datafolder(host, old) \o subdir \o fname),
              printed |-> FALSE]

(* mutant of fname_tds: every full path gets the data folder in front *)
fname_tds_prefixed(callnumber, full, old, host) ==
    LET e == filenames_get(callnumber)
    IN  IF ~IsNone(e)
        THEN [exc |-> "",
              value |-> Some(IF full = 0 THEN Val(e)[2]
                             ELSE datafolder(host, old) \o Val(e)[1]
                                     \o Val(e)[2]),
              printed |-> FALSE]
        ELSE [exc |-> "", value |-> None, printed |-> TRUE]

(* lines 12-497: the value returned (None when the function falls off its *)
(* end), the exception raised, and whether the error line was printed     *)
fname_tds(callnumber, full, old, host) ==
    LET e == filenames_get(callnumber)
    IN  IF ~IsNone(e)
        THEN LET subdir == Val(e)[1]
                 fname == Val(e)[2]
             IN  [exc |-> "",
                  value |-> Some(IF full = 0 THEN fname
                                 ELSE IF subdir \in {dirA} THEN subdir \o fname
                                 ELSE datafolder(host, old) \o subdir \o fname),
                  printed |-> FALSE]
        ELSE [exc |-> "", value |-> None, printed |-> TRUE]

(* params.__init__, lines 30-31: fid and fname of the new object, or the  *)
(* exception that ends the construction                                   *)
params_fname(fid, host) ==
    LET r == fname_tds(fid, 1, 0, host)
    IN  [exc |-> r.exc, fid |-> fid, fname |-> r.value]

(* the call numbers a caller passes: every key of the table and some that *)
(* are none, among them a key's digits as a string and its number as text *)
NotKeys == {<<"int", 0>>, <<"int", 100>>, <<"str", "101">>, <<"str", "">>,
            <<"str", "a10">>, <<"str", "Test">>}
CallNumbers == DOMAIN filenames \cup NotKeys
FullVals == {0, 1, 2}
OldVals == {0, 1, 2}
Hosts == {"midas", "elsewhere"}

InitFname ==
    /\ obj = params(1, 1)
    /\ Idle
    /\ fn = "" /\ res = None
    /\ \E c \in CallNumbers, full \in FullVals, old \in OldVals, host \in Hosts :
          fargs = Some([callnumber |-> c, full |-> full, old |-> old,
                      host |-> host])

(* fname_tds(callnumber, full, old) is called on the host *)
ApplyFname ==
    /\ fn = "" /\ fargs # None
    /\ fn' = "fname_tds"
    /\ res' = Some(fname_tds(Val(fargs).callnumber, Val(fargs).full, Val(fargs).old,
                             Val(fargs).host))
    /\ UNCHANGED <<fargs, Session>>

(* params(callnumber, ...) is constructed on the host *)
NewParams ==
    /\ fn = "" /\ fargs # None
    /\ fn' = "params"
    /\ res' = Some(params_fname(Val(fargs).callnumber, Val(fargs).host))
    /\ UNCHANGED <<fargs, Session>>

NextFname ==
    \/ ApplyFname
    \/ NewParams

SpecFname == InitFname /\ [][NextFname]_vars

---------------------------------------------------------------------------
(* dfunc.bestfit.  A parameter vector popt is <<x1, a1, b1, x2, a2, b2,   *)
(* c>>, Python popt[i] being popt[i + 1].  What gaussfit returns, which   *)
(* is what scipy's curve_fit makes of the data, is an input: None for     *)
(* (None, None), or a record of popt and the residual lsq.                 *)

(* lsq = 1e6 at line 484 *)
LsqCap == 1000000

(* lines 475-482, with closeness = 1: TRUE for "return 1" *)
check_reject(popt, rms) ==
    \/ 10 * popt[2] < 15 * rms
    \/ 10 * popt[5] < 15 * rms

(* lines 467-469 and 484-506: the popt returned, for the outcomes g1, g2,  *)
(* g3 of the three gaussfit calls and the noise level self.rms             *)
bestfit(g1, g2, g3, rms) ==
    LET s0 == [popt |-> None, lsq |-> LsqCap]
        s1 == IF /\ ~IsNone(g1)
                 /\ Val(g1).lsq <= s0.lsq
                 /\ ~check_reject(Val(g1).popt, rms)
              THEN [popt |-> Some(Val(g1).popt), lsq |-> Val(g1).lsq]
              ELSE s0
        s2 == IF /\ ~IsNone(g2)
                 /\ Val(g2).lsq <= s1.lsq
                 /\ ~check_reject(Val(g2).popt, rms)
              THEN [popt |-> Some(Val(g2).popt), lsq |-> Val(g2).lsq]
              ELSE s1
        s3 == IF /\ ~IsNone(g3)
                 /\ Val(g3).lsq <= s2.lsq
              THEN [popt |-> Some([Val(g3).popt EXCEPT ![5] = 0]),
                    lsq |-> Val(g3).lsq]
              ELSE s2
    IN  s3.popt

(* the outcomes of a gaussfit call: no convergence, or a fit whose first   *)
(* peak is at x1, with amplitudes below or at 1.5 rms and a residual that  *)
(* is small or above 1e6                                                   *)
RmsVals == {2}
AmpVals == {2, 3}
LsqVals == {1, 2, LsqCap + 1}
GaussFits(x1) ==
    {None} \cup
    {Some([popt |-> <<x1, a1, 1, 80, a2, 1, 0>>, lsq |-> l]) :
        a1 \in AmpVals, a2 \in AmpVals, l \in LsqVals}

InitFit ==
    /\ obj = params(1, 1)
    /\ Idle
    /\ fn = "" /\ res = None
    /\ \E g1 \in GaussFits(61), g2 \in GaussFits(62), g3 \in GaussFits(63),
          rms \in RmsVals :
          fargs = Some([g |-> <<g1, g2, g3>>, rms |-> rms])

(* dfunc(x, y).bestfit() is called *)
ApplyFit ==
    /\ fn = "" /\ fargs # None
    /\ fn' = "bestfit"
    /\ res' = Some(bestfit(Val(fargs).g[1], Val(fargs).g[2], Val(fargs).g[3],
                           Val(fargs).rms))
    /\ UNCHANGED <<fargs, Session>>

NextFit == ApplyFit

SpecFit == InitFit /\ [][NextFit]_vars

---------------------------------------------------------------------------
(* join_dfunc.set_dfunc, lines 600-670.  What sgsmooth returns for a side *)
(* is an input, a record of the index array x and the gradient grad; so   *)
(* are the outcomes of the side's three gaussfit calls and its rms.        *)

GradLen == 12

Abs(x) == IF x < 0 THEN -x ELSE x

(* np.argmax, np.argmin: the first (0-based) index of the extreme value *)
argmax(a) ==
    CHOOSE i \in 0 .. (Len(a) - 1) :
        /\ \A k \in 0 .. (Len(a) - 1) : a[k + 1] <= a[i + 1]
        /\ \A k \in 0 .. (i - 1) : a[k + 1] < a[i + 1]
argmin(a) ==
    CHOOSE i \in 0 .. (Len(a) - 1) :
        /\ \A k \in 0 .. (Len(a) - 1) : a[k + 1] >= a[i + 1]
        /\ \A k \in 0 .. (i - 1) : a[k + 1] > a[i + 1]

(* mutant of Flip: nothing is reversed *)
Flip_same(a) == a

(* np.flip *)
Flip(a) == [j \in 1 .. Len(a) |-> a[Len(a) + 1 - j]]

(* a[lo:] for a 0-based lo within the array *)
From(a, lo) == SubSeq(a, lo + 1, Len(a))

(* mutant of check_popt: without a fit the curve is cut at its start *)
check_popt_start(popt, grad, vLR) ==
    IF IsNone(popt) THEN 0
    ELSE LET arg == argmax(grad)
             pp == IF Val(popt)[5] = 0 THEN Val(popt)[1]
                   ELSE IF Val(popt)[1] <= Val(popt)[4] THEN Val(popt)[1]
                   ELSE Val(popt)[4]
             arg_test == argmin([j \in 1 .. Len(vLR) |-> Abs(vLR[j] - pp)])
         IN  IF arg # 0 /\ 10 * Abs(arg_test - arg) < arg THEN arg_test
             ELSE arg

(* mutant of check_popt: the lower of the two peak positions is taken, *)
(* whatever kind of fit it is                                          *)
check_popt_lower(popt, grad, vLR) ==
    LET arg == argmax(grad)
    IN  IF ~IsNone(popt)
        THEN LET pp == IF Val(popt)[1] <= Val(popt)[4] THEN Val(popt)[1]
                       ELSE Val(popt)[4]
                 arg_test == argmin([j \in 1 .. Len(vLR) |-> Abs(vLR[j] - pp)])
             IN  IF arg # 0 /\ 10 * Abs(arg_test - arg) < arg THEN arg_test
                 ELSE arg
        ELSE arg

(* mutant of check_popt: a disagreement of 10% still takes the fit *)
check_popt_atmost(popt, grad, vLR) ==
    LET arg == argmax(grad)
    IN  IF ~IsNone(popt)
        THEN LET pp == IF Val(popt)[5] = 0 THEN Val(popt)[1]
                       ELSE IF Val(popt)[1] <= Val(popt)[4] THEN Val(popt)[1]
                       ELSE Val(popt)[4]
                 arg_test == argmin([j \in 1 .. Len(vLR) |-> Abs(vLR[j] - pp)])
             IN  IF arg # 0 /\ 10 * Abs(arg_test - arg) <= arg THEN arg_test
                 ELSE arg
        ELSE arg

(* lines 629-648.  abs(arg_test-arg)/(arg) is a numpy division: with      *)
(* arg = 0 it is inf or nan (and a warning), which is not < 0.10.         *)
check_popt(popt, grad, vLR) ==
    LET arg == argmax(grad)
    IN  IF ~IsNone(popt)
        THEN LET pp == IF Val(popt)[5] = 0 THEN Val(popt)[1]
                       ELSE IF Val(popt)[1] <= Val(popt)[4] THEN Val(popt)[1]
                       ELSE Val(popt)[4]
                 arg_test == argmin([j \in 1 .. Len(vLR) |-> Abs(vLR[j] - pp)])
             IN  IF arg # 0 /\ 10 * Abs(arg_test - arg) < arg THEN arg_test
                 ELSE arg
        ELSE arg

(* mutant of join_factor: the left side is not rescaled *)
join_factor_one(gradL, gradR, argL, argR) == [num |-> 1, den |-> 1]

(* line 657, as an exact fraction; a zero denominator is numpy's inf or   *)
(* nan                                                                    *)
join_factor(gradL, gradR, argL, argR) ==
    [num |-> gradR[argR + 1], den |-> gradL[argL + 1]]

(* mutant of join_index: the index starts one sample later *)
join_index_late(nL, nR) == [j \in 1 .. (nL + nR) |-> j - nL]

(* line 658: np.arange(-len(sliceL), len(sliceR)) *)
join_index(nL, nR) == [j \in 1 .. (nL + nR) |-> j - 1 - nL]

(* mutant of shift_axis: the axis is cut but not shifted *)
shift_axis_cut(v, a) == From(v, a)

(* lines 664-665: np.array(v[arg:]) - v[arg] *)
shift_axis(v, a) == [j \in 1 .. (Len(v) - a) |-> From(v, a)[j] - v[a + 1]]

(* the result: the exception raised or the tuple returned, and the two    *)
(* splice indices                                                         *)
set_dfunc(voltL, voltR, sgL, sgR, fitL, fitR, dV) ==
    IF IsNone(voltL) \/ IsNone(voltR)
    THEN [exc |-> "TypeError", ret |-> None, argL |-> None, argR |-> None]
    ELSE LET gradL == sgL.grad
             gradR == sgR.grad
             vL == [j \in 1 .. Len(sgL.x) |-> Val(voltL)[sgL.x[j] + 1]]
             vR == [j \in 1 .. Len(sgR.x) |-> Val(voltR)[sgR.x[j] + 1]]
             poptL == bestfit(fitL.g[1], fitL.g[2], fitL.g[3], fitL.rms)
             poptR == bestfit(fitR.g[1], fitR.g[2], fitR.g[3], fitR.rms)
             argL == check_popt(poptL, gradL, vL)
             argR == check_popt(poptR, gradR, vR)
             sliceL == From(gradL, argL)
             sliceR == From(gradR, argR)
             f == join_factor(gradL, gradR, argL, argR)
             nL == Len(sliceL)
             nR == Len(sliceR)
             index == join_index(nL, nR)
             dfLR == [j \in 1 .. nL |->
                         [num |-> Flip(sliceL)[j] * f.num, den |-> f.den]]
                     \o [j \in 1 .. nR |-> [num |-> sliceR[j], den |-> 1]]
             vLvR == IF ~IsNone(voltL) /\ ~IsNone(voltR)
                     THEN LET wL == shift_axis(vL, argL)
                              wR == shift_axis(vR, argR)
                          IN  [j \in 1 .. Len(wL) |-> -Flip(wL)[j]] \o wR
                     ELSE [j \in 1 .. (nL + nR) |-> index[j] * dV]
         IN  [exc |-> "", ret |-> Some(<<index, dfLR, vLvR>>),
              argL |-> Some(argL), argR |-> Some(argR)]

(* The inputs.  An I-V trace of GradLen + 2 samples smoothed with a       *)
(* window of 3 leaves GradLen samples, of indices 1 .. GradLen; the       *)
(* voltage axis rises by 2 per sample.                                    *)
SgX == [j \in 1 .. GradLen |-> j]
VoltAxis == [i \in 1 .. (GradLen + 2) |-> 48 + 2 * i]
FitX == (VoltAxis[2]) .. (VoltAxis[GradLen + 1])

(* a gradient with its only maximum, top, at index p, and an all-zero one *)
Peaked(p, top) ==
    [j \in 1 .. GradLen |-> IF j = p + 1 THEN top ELSE 1 + ((j + p) % 2)]
ZeroGrad == [j \in 1 .. GradLen |-> 0]

(* the gaussfit outcomes of a side: nothing converges; only a two-gauss   *)
(* fit that is rejected; a two-gauss fit with peaks at x1 and x2; only a  *)
(* one-gauss fit with its peak at x1, whose unused second peak is at the *)
(* low end of the axis                                                    *)
NoFit == [g |-> <<None, None, None>>, rms |-> 2]
RejectedFit ==
    [g |-> <<Some([popt |-> <<60, 2, 1, 80, 2, 1, 0>>, lsq |-> 1]), None, None>>,
     rms |-> 2]
TwoFit(x1, x2) ==
    [g |-> <<Some([popt |-> <<x1, 4, 1, x2, 4, 1, 0>>, lsq |-> 1]), None, None>>,
     rms |-> 2]
OneFit(x1) ==
    [g |-> <<None, None,
             Some([popt |-> <<x1, 4, 1, VoltAxis[2], 2, 1, 0>>, lsq |-> 1])>>,
     rms |-> 2]

LeftFits ==
    {NoFit, RejectedFit}
    \cup {OneFit(x1) : x1 \in FitX}
    \cup {TwoFit(x1, x2) : x1 \in FitX, x2 \in {VoltAxis[2], 80}}
RightFits == {NoFit, OneFit(VoltAxis[2])}

LeftSides ==
    {[x |-> SgX, grad |-> Peaked(p, 6)] : p \in 0 .. (GradLen - 1)}
    \cup {[x |-> SgX, grad |-> ZeroGrad]}
RightSides == {[x |-> SgX, grad |-> Peaked(p, 9)] : p \in {0, 2}}

JoinArgs ==
    {[voltL |-> Some(VoltAxis), voltR |-> Some(VoltAxis), sgL |-> l,
      sgR |-> r, fitL |-> fl, fitR |-> fr, dV |-> 1] :
        l \in LeftSides, r \in RightSides, fl \in LeftFits, fr \in RightFits}
    \cup
    {[voltL |-> vl, voltR |-> vr, sgL |-> l, sgR |-> l, fitL |-> NoFit,
      fitR |-> NoFit, dV |-> 1] :
        l \in LeftSides, vl \in {None, Some(VoltAxis)},
        vr \in {None, Some(VoltAxis)}}

InitJoin ==
    /\ obj = params(1, 1)
    /\ Idle
    /\ fn = "" /\ res = None
    /\ \E a \in JoinArgs : fargs = Some(a)

(* join_dfunc.set_dfunc(voltL, voltR, dataL, dataR, nwindow=3) is called *)
ApplyJoin ==
    /\ fn = "" /\ fargs # None
    /\ fn' = "set_dfunc"
    /\ LET a == Val(fargs)
       IN  res' = Some(set_dfunc(a.voltL, a.voltR, a.sgL, a.sgR, a.fitL,
                                 a.fitR, a.dV))
    /\ UNCHANGED <<fargs, Session>>

NextJoin == ApplyJoin

SpecJoin == InitJoin /\ [][NextJoin]_vars

---------------------------------------------------------------------------
(* rsmooth and sgsmooth (rfea.py, lines 991-1011) *)

SigLen == 6
MaxRepeat == 2

(* tbx.smooth, a centred moving average over nwindow samples that keeps   *)
(* the length of the signal: the samples nearer than nwindow/2 to an end  *)
(* are kept, and every sample is scaled by nwindow to stay integer.  A    *)
(* window longer than the signal is a ConfigurationError.                 *)
smooth(data, nwindow) ==
    IF nwindow > Len(data) THEN [exc |-> "ConfigurationError", value |-> <<>>]
    ELSE LET h == nwindow \div 2
         IN  [exc |-> "",
              value |-> [j \in 1 .. Len(data) |->
                            IF j - h >= 1 /\ j + h <= Len(data)
                            THEN SeqSum(SubSeq(data, j - h, j + h))
                            ELSE nwindow * data[j]]]

(* lines 991-996 *)
RECURSIVE rsmooth(_, _, _)
rsmooth(data, repeat, nwindow) ==
    IF repeat > 0
    THEN LET temp == smooth(data, nwindow)
         IN  IF temp.exc # "" THEN temp
             ELSE rsmooth(temp.value, repeat - 1, nwindow)
    ELSE [exc |-> "", value |-> data]

(* a[h:-h]; with h = 0 this is a[0:0], which is empty *)
Trim(a, h) == IF h = 0 THEN <<>> ELSE SubSeq(a, h + 1, Len(a) - h)

(* np.gradient of two samples or more, scaled by 2 to stay integer:       *)
(* central differences inside, one-sided differences at the two ends      *)
gradient(y) ==
    [j \in 1 .. Len(y) |->
        IF j = 1 THEN 2 * (y[2] - y[1])
        ELSE IF j = Len(y) THEN 2 * (y[j] - y[j - 1])
        ELSE y[j + 1] - y[j - 1]]

(* lines 999-1011: the exception raised, or the three arrays returned.    *)
(* np.gradient raises ValueError on fewer than two samples.               *)
sgsmooth(data, nwindow, repeat) ==
    LET h == nwindow \div 2
        xval == [j \in 1 .. Len(data) |-> j - 1]
        x == Trim(xval, h)
        temp == rsmooth(data, repeat, nwindow)
        y == Trim(temp.value, h)
    IN  IF temp.exc # ""
        THEN [exc |-> temp.exc, x |-> None, y |-> None, grad |-> None]
        ELSE IF Len(y) < 2
        THEN [exc |-> "ValueError", x |-> None, y |-> None, grad |-> None]
        ELSE [exc |-> "", x |-> Some(x), y |-> Some(y),
              grad |-> Some([j \in 1 .. Len(y) |-> -gradient(y)[j]])]

(* the signals, windows and numbers of passes of a call *)
Signals ==
    {[j \in 1 .. n |-> (k * j * j) % 7] : n \in 1 .. SigLen, k \in 1 .. 3}
Windows == {1, 3, 5}
SmoothArgs ==
    {[data |-> d, nwindow |-> w, repeat |-> r] :
        d \in Signals, w \in Windows, r \in 0 .. MaxRepeat}

InitSmooth ==
    /\ obj = params(1, 1)
    /\ Idle
    /\ fn = "" /\ res = None
    /\ \E a \in SmoothArgs : fargs = Some(a)

(* rsmooth(data, repeat, nwindow) is called *)
ApplyRsmooth ==
    /\ fn = "" /\ fargs # None
    /\ fn' = "rsmooth"
    /\ LET a == Val(fargs)
       IN  res' = Some(rsmooth(a.data, a.repeat, a.nwindow))
    /\ UNCHANGED <<fargs, Session>>

(* sgsmooth(data, nwindow, repeat) is called *)
ApplySgsmooth ==
    /\ fn = "" /\ fargs # None
    /\ fn' = "sgsmooth"
    /\ LET a == Val(fargs)
       IN  res' = Some(sgsmooth(a.data, a.nwindow, a.repeat))
    /\ UNCHANGED <<fargs, Session>>

NextSmooth == ApplyRsmooth \/ ApplySgsmooth

SpecSmooth == InitSmooth /\ [][NextSmooth]_vars

---------------------------------------------------------------------------
(* enint (rfea.py, lines 751-756) *)

EnLen == 2

(* np.sqrt, of the squares that the voltages of the model are *)
Sqrt(n) == CHOOSE r \in 0 .. n : r * r = n
FracAdd(a, b) == [num |-> a.num * b.den + b.num * a.den, den |-> a.den * b.den]

(* zip(volt, dfunc): the pairs up to the shorter of the two *)
Zip(volt, dfunc) ==
    [i \in 1 .. (IF Len(volt) <= Len(dfunc) THEN Len(volt) ELSE Len(dfunc)) |->
        <<volt[i], dfunc[i]>>]

(* line 752: the sum of jj / sqrt(|ii|) over the first i pairs with ii # 0 *)
RECURSIVE den_sum(_, _)
den_sum(pairs, i) ==
    IF i = 0 THEN [num |-> 0, den |-> 1]
    ELSE IF pairs[i][1] # 0
    THEN FracAdd(den_sum(pairs, i - 1),
                 [num |-> pairs[i][2], den |-> Sqrt(Abs(pairs[i][1]))])
    ELSE den_sum(pairs, i - 1)

(* lines 753-754: the sum of jj * sqrt(|ii|) over the first i pairs with ii # 0 *)
RECURSIVE vavg_sum(_, _)
vavg_sum(pairs, i) ==
    IF i = 0 THEN 0
    ELSE IF pairs[i][1] # 0
    THEN vavg_sum(pairs, i - 1) + pairs[i][2] * Sqrt(Abs(pairs[i][1]))
    ELSE vavg_sum(pairs, i - 1)

(* mutant of enint: only the samples of positive voltage are summed *)
enint_positive(volt, dfunc) ==
    LET pairs == Zip([i \in 1 .. Len(volt) |-> IF volt[i] > 0 THEN volt[i] ELSE 0],
                     dfunc)
        den == den_sum(pairs, Len(pairs))
        vavg == vavg_sum(pairs, Len(pairs))
    IN  [exc |-> "", value |-> [num |-> vavg * den.den, den |-> den.num]]

(* lines 751-756: vavg/den is a numpy division, which warns and gives inf *)
(* or nan (a zero denominator here) when den is 0                         *)
enint(volt, dfunc) ==
    LET pairs == Zip(volt, dfunc)
        den == den_sum(pairs, Len(pairs))
        vavg == vavg_sum(pairs, Len(pairs))
    IN  [exc |-> "", value |-> [num |-> vavg * den.den, den |-> den.num]]

(* voltages and values of the distribution function of a call *)
RECURSIVE SeqsUpTo(_, _)
SeqsUpTo(S, n) ==
    IF n = 0 THEN {<<>>}
    ELSE SeqsUpTo(S, n - 1) \cup {Append(q, x) : q \in SeqsUpTo(S, n - 1), x \in S}
EnVolts == {-4, -1, 0, 1, 4}
EnVals == {-1, 0, 1, 2}
EnintArgs ==
    {[volt |-> v, dfunc |-> d] : v \in SeqsUpTo(EnVolts, EnLen),
                                 d \in SeqsUpTo(EnVals, EnLen)}

InitEnint ==
    /\ obj = params(1, 1)
    /\ Idle
    /\ fn = "" /\ res = None
    /\ \E a \in EnintArgs : fargs = Some(a)

(* enint(volt, dfunc) is called *)
ApplyEnint ==
    /\ fn = "" /\ fargs # None
    /\ fn' = "enint"
    /\ res' = Some(enint(Val(fargs).volt, Val(fargs).dfunc))
    /\ UNCHANGED <<fargs, Session>>

NextEnint == ApplyEnint

SpecEnint == InitEnint /\ [][NextEnint]_vars

---------------------------------------------------------------------------
(* The B channel of params and data.integrate_bdot (rfea.py, lines 28-45,  *)
(* 191-201)                                                                *)

(* a or b: a unless it is None or 0 *)
Or(a, b) == IF IsNone(a) \/ a = Some(0) THEN b ELSE a

(* lines 39-45 *)
params_channels(ch_bdot, ch_bint) ==
    [ch_bdot |-> Or(ch_bdot, ch_bint),
     f_bint |-> IF ~IsNone(ch_bint) THEN 1 ELSE 0]

(* tbx.bdot.bint, the running sum of the signal along the time axis *)
bdot_bint(bdot) == [j \in 1 .. Len(bdot) |-> SeqSum(SubSeq(bdot, 1, j))]

(* lines 191-201 *)
integrate_bdot(o, bdot) == IF o.f_bint = 1 THEN bdot ELSE bdot_bint(bdot)

(* the channel numbers and the B signal of a session *)
Channels == {None} \cup {Some(c) : c \in 0 .. 2}
ChannelArgs ==
    {[ch_bdot |-> b, ch_bint |-> i, bdot |-> s] :
        b \in Channels, i \in Channels, s \in {q \in Signals : Len(q) >= 2}}

InitChannels ==
    /\ obj = params(1, 1)
    /\ Idle
    /\ fn = "" /\ res = None
    /\ \E a \in ChannelArgs : fargs = Some(a)

(* params(fid, nsteps, nshots, res, ch_bdot=.., ch_bint=..) is constructed *)
NewChannels ==
    /\ fn = "" /\ fargs # None
    /\ fn' = "params"
    /\ res' = Some([o |-> params_channels(Val(fargs).ch_bdot, Val(fargs).ch_bint),
                    bint |-> None])
    /\ UNCHANGED <<fargs, Session>>

(* data(obj).integrate_bdot(bdot) is called *)
IntegrateBdot ==
    /\ fn = "params"
    /\ fn' = "integrate_bdot"
    /\ res' = Some([o |-> Val(res).o,
                    bint |-> Some(integrate_bdot(Val(res).o, Val(fargs).bdot))])
    /\ UNCHANGED <<fargs, Session>>

NextChannels == NewChannels \/ IntegrateBdot

SpecChannels == InitChannels /\ [][NextChannels]_vars

---------------------------------------------------------------------------
(* A session of set_time calls alone (rfea.py, lines 61-69) *)

InitTime ==
    /\ obj = params(1, 1)
    /\ Idle
    /\ fn = "" /\ fargs = None /\ res = None

(* obj.set_time(t1, t2, bt1, bt2) is called, any of the four left out; *)
(* it returns nothing                                                   *)
SetTimeCall ==
    /\ pc = "idle"
    /\ \E a \in LoVals \X HiVals \X LoVals \X HiVals :
           /\ obj' = set_time(obj, a[1], a[2], a[3], a[4])
           /\ fargs' = Some(a)
    /\ fn' = "set_time"
    /\ res' = None
    /\ UNCHANGED <<obj0, pc, Args, Locals, ret, exc, want>>

NextTime == SetTimeCall

SpecTime == InitTime /\ [][NextTime]_vars

---------------------------------------------------------------------------
(* What the claims speak of *)

InCall == pc \in {"loop", "done"}
Returned == pc = "done"
Iterated(s, h) == lagcalls[s][h] # None
Xlag(s, h) == Val(lagcalls[s][h]).xlag
Rejected(s) == {h \in Shots(obj) : Iterated(s, h) /\ IsNone(Xlag(s, h))}
Accepted(s) == {h \in Shots(obj) : Iterated(s, h) /\ ~IsNone(Xlag(s, h))}
WindowLen == Val(obj.t2) - Val(obj.t1)
RetMean == Val(ret)[1]
RetBref == Val(ret)[2]

FracEq(a, b) == a.den > 0 /\ b.den > 0 /\ a.num * b.den = b.num * a.den

RECURSIVE SlotSum(_, _, _)
SlotSum(S, s, j) ==
    IF S = {} THEN 0
    ELSE LET h == CHOOSE x \in S : TRUE
         IN  curr_arr[s][h][j] + SlotSum(S \ {h}, s, j)

C2_MeanOverAccepted ==
    Returned =>
        \A s \in Steps(obj) :
            LET r == Cardinality(Rejected(s))
            IN  r < obj.nshots =>
                  \A j \in 1 .. WindowLen :
                     /\ FracEq(RetMean[s][j],
                               [num |-> SlotSum(Accepted(s), s, j),
                                den |-> obj.nshots - r])
                     /\ r = 0 => FracEq(RetMean[s][j],
                                        [num |-> SlotSum(Shots(obj), s, j),
                                         den |-> obj.nshots])

C2_Witness ==
    /\ Returned
    /\ \E s \in Steps(obj) :
          /\ Cardinality(Rejected(s)) = 1
          /\ Cardinality(Accepted(s)) = 1
          /\ \E j \in 1 .. WindowLen : RetMean[s][j].num > 0
    /\ \E s \in Steps(obj) : Rejected(s) = {}

(* C3: a step whose shots were all rejected is told apart, in the returned *)
(* value, from a step whose averaged current is zero.                      *)
C3_AllRejectedFlagged ==
    Returned =>
        \A s \in Steps(obj) :
            Rejected(s) = Shots(obj) =>
                \E j \in 1 .. WindowLen : RetMean[s][j].num # 0

(* C4: whatever shots are rejected, a call that raised did so at the      *)
(* allocation or in storing an accepted shot, never at a rejected shot or  *)
(* in the factor; every returned sample is finite (no zero denominator),   *)
(* and each step's value is what its own shots alone give: zero when all   *)
(* are rejected, else the accepted slots' sum over their number.           *)
C4_NoZeroDivide ==
    /\ pc = "raised" =>
          \/ lagcalls = NoCalls(obj) /\ alloc_exc(obj) # ""
          \/ \E s \in Steps(obj), h \in Shots(obj) :
                /\ Iterated(s, h) /\ ~IsNone(Xlag(s, h))
                /\ Len(Slice(curr[s][h], obj.t1, obj.t2)) \notin {1, WindowLen}
    /\ Returned =>
          \A s \in Steps(obj), j \in 1 .. WindowLen :
             /\ RetMean[s][j].den > 0
             /\ RetMean[s][j].num * (obj.nshots - Cardinality(Rejected(s)))
                   = SlotSum(Accepted(s), s, j) * RetMean[s][j].den

C4_Witness ==
    /\ Returned
    /\ \E s \in Steps(obj) : Rejected(s) = Shots(obj)
    /\ \E s \in Steps(obj) : Accepted(s) # {}

(* C5: a finished step's skip_arr entry is the number of its shots with an *)
(* invalid lag, lies in 0..nshots, and with the number of filled slots     *)
(* adds up to nshots; a step not finished yet still has entry 0.           *)
C5_SkipCounts ==
    InCall =>
        \A s \in Steps(obj) :
            IF s \in steps_done
            THEN /\ skip_arr[s] = Cardinality(Rejected(s))
                 /\ skip_arr[s] \in 0 .. obj.nshots
                 /\ Cardinality({h \in Shots(obj) :
                                   curr_arr[s][h] # Zeros(WindowLen)})
                      + skip_arr[s] = obj.nshots
            ELSE skip_arr[s] = 0

C5_Witness ==
    /\ pc = "loop" /\ step = None /\ steps_done = Steps(obj)
    /\ obj.nsteps = MaxSteps
    /\ skip_arr[0] = 1
    /\ skip_arr[obj.nsteps - 1] = 0

(* C6: when condavg has been called, every bound that was unset at the    *)
(* call holds its default (t1 = 0, t2 = number of samples, bt1 = t1,       *)
(* bt2 = t2) and every bound that was set is kept, so none is unset.       *)
C6_AllBoundsDefaulted ==
    pc # "idle" =>
        LET e == Val(obj0)
        IN  /\ obj.t1 = (IF IsNone(e.t1) THEN Some(0) ELSE e.t1)
            /\ obj.t2 = (IF IsNone(e.t2) THEN Some(Shape0(curr)) ELSE e.t2)
            /\ obj.bt1 = (IF IsNone(e.bt1) THEN obj.t1 ELSE e.bt1)
            /\ obj.bt2 = (IF IsNone(e.bt2) THEN obj.t2 ELSE e.bt2)

RefPair == IF IsNone(ref_arg) THEN <<0, 0>> ELSE Val(ref_arg)
RefTrace == bint[RefPair[1]][RefPair[2]]
ExplicitUsed ==
    /\ bref = Val(bref_arg)
    /\ \A s \in Steps(obj), h \in Shots(obj) :
          Iterated(s, h) => Val(lagcalls[s][h]).bref = Val(bref_arg)
    /\ Returned => RetBref = Val(bref_arg)

(* C7 as stated: without an explicit reference, the reference is the      *)
(* B trace of the reference pair restricted to the analysis window         *)
(* [t1, t2); an explicit one is used for every lag and returned unchanged. *)
C7_RefOnAnalysisWindow ==
    InCall =>
        IF IsNone(bref_arg)
        THEN bref = Slice(RefTrace, obj.t1, obj.t2)
        ELSE ExplicitUsed

(* C7 amended: without an explicit reference, the reference is the B      *)
(* trace of the reference pair restricted to the correlation bounds        *)
(* [bt1, bt2); an explicit one is used for every lag and returned          *)
(* unchanged.                                                              *)
C7_RefOnCorrelationBounds ==
    InCall =>
        IF IsNone(bref_arg)
        THEN bref = Slice(RefTrace, obj.bt1, obj.bt2)
        ELSE ExplicitUsed

C7_Witness ==
    /\ Returned
    /\ IsNone(bref_arg)
    /\ ~IsNone(ref_arg) /\ obj.nsteps > 1
    /\ RetBref = Slice(RefTrace, obj.bt1, obj.bt2)
    /\ RetBref # Slice(RefTrace, obj.t1, obj.t2)

C9_InputsUnchanged ==
    [][(pc # "idle" /\ pc' # "idle") =>
          /\ bint' = bint
          /\ curr' = curr
          /\ bref_arg' = bref_arg
          /\ (pc = "loop" => bref' = bref)]_vars

C9_Witness ==
    /\ Returned
    /\ \E s \in Steps(obj) :
          /\ Rejected(s) # {}
          /\ \E h \in Accepted(s) : Val(Xlag(s, h)) # 0

ExpXlag(s, h) == lagtime(bref, Slice(bint[s][h], obj.bt1, obj.bt2), ThresholdPct)
ExpSlot(s, h) ==
    IF IsNone(ExpXlag(s, h)) THEN Zeros(WindowLen)
    ELSE Assigned(WindowLen,
                  Roll(Slice(curr[s][h], obj.t1, obj.t2), -Val(ExpXlag(s, h))))
ExpSkip(s) == Cardinality({h \in Shots(obj) : IsNone(ExpXlag(s, h))})
ExpSum(s, j) == SeqSum([k \in 1 .. obj.nshots |-> ExpSlot(s, k - 1)[j]])

(* C10: in whatever order the steps and the shots of a step are iterated,  *)
(* a slot is zero until its own iteration and then holds what the inputs   *)
(* alone determine, a step's count is 0 until the step ends and then the   *)
(* number of its invalid lags, and the returned mean is the one the inputs *)
(* determine.                                                              *)
C10_OrderIndependent ==
    InCall =>
        /\ \A s \in Steps(obj), h \in Shots(obj) :
              curr_arr[s][h] =
                 IF Iterated(s, h) THEN ExpSlot(s, h) ELSE Zeros(WindowLen)
        /\ \A s \in Steps(obj) :
              skip_arr[s] = IF s \in steps_done THEN ExpSkip(s) ELSE 0
        /\ Returned =>
              \A s \in Steps(obj), j \in 1 .. WindowLen :
                 /\ RetMean[s][j].den > 0
                 /\ RetMean[s][j].num * (obj.nshots - ExpSkip(s))
                       = ExpSum(s, j) * RetMean[s][j].den
                 /\ ExpSkip(s) = obj.nshots => RetMean[s][j].num = 0

C10_Witness ==
    /\ pc = "loop"
    /\ step = Some(1) /\ 0 \notin steps_done
    /\ shots_done = {1}
    /\ ~IsNone(Xlag(1, 1))
    /\ curr_arr[1][0] = Zeros(WindowLen)
    /\ curr_arr[1][1] # Zeros(WindowLen)

(* the trace a step's shots have in common if they are aligned: shot 0's   *)
(* trace on the analysis window with its reported lag undone               *)
CommonOf(s) == Roll(Slice(curr[s][0], obj.t1, obj.t2), -Val(Xlag(s, 0)))
Aligned(s) ==
    /\ Rejected(s) = {}
    /\ \A h \in Shots(obj) :
          Slice(curr[s][h], obj.t1, obj.t2) = Roll(CommonOf(s), Val(Xlag(s, h)))

C12_ReturnsRejections ==
    Returned =>
        /\ Len(Val(ret)) >= 3
        /\ \E i \in 3 .. Len(Val(ret)) : Val(ret)[i] = skip_arr

(* C13: every lag of a condavg call is estimated with the reliability      *)
(* threshold its caller wants, so that calls wanting different thresholds  *)
(* use different thresholds.                                               *)
C13_ThresholdFromCaller ==
    InCall =>
        \A s \in Steps(obj), h \in Shots(obj) :
            Iterated(s, h) => Val(lagcalls[s][h]).threshold = Val(want)

(* C14: fname_tds with a call number that is no key of the table, whatever *)
(* full and old are, raises nothing and returns no path (None, after the   *)
(* error line); constructing params with such a call number raises nothing *)
(* either and leaves fname None.                                           *)
C14_UnknownNotFound ==
    (fn # "" /\ Val(fargs).callnumber \notin DOMAIN filenames) =>
        /\ Val(res).exc = ""
        /\ fn = "fname_tds" => Val(res).value = None /\ Val(res).printed
        /\ fn = "params" => Val(res).fname = None

C14_Witness ==
    /\ fn = "params"
    /\ Val(fargs).callnumber = <<"str", "101">>
    /\ Val(res).exc = "" /\ Val(res).fname = None

(* C15: for a call number that is a key of the table, full = 0 gives the   *)
(* entry's file name alone; any other full gives the data folder, the      *)
(* sub-directory and the file name, except that an entry of dirA gives the *)
(* sub-directory and the file name without the data folder.                *)
C15_PathOfKey ==
    (fn = "fname_tds" /\ Val(fargs).callnumber \in DOMAIN filenames) =>
        LET a == Val(fargs)
            e == filenames[a.callnumber]
            folder == CASE a.host = "midas" /\ a.old = 1 -> "/data_old"
                        [] a.host = "midas" /\ a.old # 1 -> "/data"
                        [] a.host # "midas" /\ a.old = 1 -> "/data"
                        [] OTHER -> "/data_new"
        IN  /\ Val(res).exc = ""
            /\ Val(res).value =
                  Some(IF a.full = 0 THEN e[2]
                       ELSE IF e[1] = dirA THEN e[1] \o e[2]
                       ELSE folder \o e[1] \o e[2])

C15_Witness ==
    /\ fn = "fname_tds"
    /\ Val(fargs).callnumber = <<"str", "A10">> /\ Val(fargs).full = 1
    /\ Val(res).value =
          Some("/data_old/BAPSF_Data/LaB6_Cathode/FluxRopes_2_14/Plane_Bp40_Ep30_51x51.hdf5")

(* a set_dfunc call and its two sides "L" and "R" *)
Joined == fn = "set_dfunc" /\ Val(res).exc = ""
VoltsGiven == ~IsNone(Val(fargs).voltL) /\ ~IsNone(Val(fargs).voltR)
SideGrad(sd) == IF sd = "L" THEN Val(fargs).sgL.grad ELSE Val(fargs).sgR.grad
SideX(sd) == IF sd = "L" THEN Val(fargs).sgL.x ELSE Val(fargs).sgR.x
SideVolt(sd) ==
    LET v == IF sd = "L" THEN Val(Val(fargs).voltL) ELSE Val(Val(fargs).voltR)
    IN  [j \in 1 .. Len(SideX(sd)) |-> v[SideX(sd)[j] + 1]]
SideFit(sd) == IF sd = "L" THEN Val(fargs).fitL ELSE Val(fargs).fitR
SidePopt(sd) ==
    bestfit(SideFit(sd).g[1], SideFit(sd).g[2], SideFit(sd).g[3], SideFit(sd).rms)
SideArg(sd) == IF sd = "L" THEN Val(Val(res).argL) ELSE Val(Val(res).argR)
RawArg(sd) == argmax(SideGrad(sd))
(* the fitted peak: the only one of a one-gauss fit, the leftmost of two *)
FitPeak(sd) ==
    LET q == Val(SidePopt(sd))
    IN  IF q[5] = 0 \/ q[1] <= q[4] THEN q[1] ELSE q[4]
FitArg(sd) ==
    argmin([j \in 1 .. Len(SideVolt(sd)) |-> Abs(SideVolt(sd)[j] - FitPeak(sd))])
RetIndex == Val(Val(res).ret)[1]
RetDfLR == Val(Val(res).ret)[2]
RetVolt == Val(Val(res).ret)[3]

(* C16 as stated: with a fit available, the splice index of a side is the *)
(* raw argmax when |arg_fit - arg_max| / arg_max exceeds 10% and the       *)
(* fitted-peak index when it does not, for every raw argmax, 0 included,   *)
(* and for a disagreement of exactly 10%.                                  *)
C16_TenPercentRule ==
    Joined =>
        \A sd \in {"L", "R"} :
            ~IsNone(SidePopt(sd)) =>
                SideArg(sd) =
                    IF 10 * Abs(FitArg(sd) - RawArg(sd)) > RawArg(sd)
                    THEN RawArg(sd)
                    ELSE FitArg(sd)

(* C16 amended: with a fit available, the splice index of a side is the   *)
(* fitted-peak index when arg_max is not 0 and |arg_fit - arg_max| /       *)
(* arg_max is below 10%, and the raw argmax otherwise: at a disagreement   *)
(* of exactly 10%, above it, and when arg_max is 0.                        *)
C16_BelowTenPercent ==
    Joined =>
        \A sd \in {"L", "R"} :
            ~IsNone(SidePopt(sd)) =>
                SideArg(sd) =
                    IF /\ RawArg(sd) # 0
                       /\ 10 * Abs(FitArg(sd) - RawArg(sd)) < RawArg(sd)
                    THEN FitArg(sd)
                    ELSE RawArg(sd)

C16_Witness ==
    /\ Joined
    /\ ~IsNone(SidePopt("L"))
    /\ RawArg("L") = 10 /\ FitArg("L") = 11
    /\ SideArg("L") = 10

(* C17: when bestfit returns None for a side, set_dfunc raises nothing,    *)
(* the side's splice index is the raw argmax of its gradient, and the      *)
(* joined function is returned, with its samples from both splice indices  *)
(* on.                                                                     *)
C17_NoFitFallsBack ==
    (fn = "set_dfunc" /\ VoltsGiven) =>
        \A sd \in {"L", "R"} :
            IsNone(SidePopt(sd)) =>
                /\ Val(res).exc = ""
                /\ SideArg(sd) = RawArg(sd)
                /\ ~IsNone(Val(res).ret)
                /\ Len(RetDfLR) = (Len(SideGrad("L")) - SideArg("L"))
                                  + (Len(SideGrad("R")) - SideArg("R"))

C17_Witness ==
    /\ Joined
    /\ IsNone(SidePopt("L")) /\ \E i \in 1 .. 3 : ~IsNone(SideFit("L").g[i])
    /\ ~IsNone(SidePopt("R"))
    /\ SideArg("L") = 5
    /\ Len(RetDfLR) = (GradLen - 5) + GradLen

(* the candidates of a bestfit call: 1 and 2 are two-gaussian fits, 3 is   *)
(* the one-gaussian fit, of which only the first peak is used              *)
Candidates == 1 .. 3
Converged(i) == ~IsNone(Val(fargs).g[i])
CandPopt(i) == Val(Val(fargs).g[i]).popt
CandLsq(i) == Val(Val(fargs).g[i]).lsq
AsReturned(i) == IF i = 3 THEN [CandPopt(i) EXCEPT ![5] = 0] ELSE CandPopt(i)
(* the rejection rule: every peak of the fit is at least 1.5 rms high *)
PassesRule(i) ==
    /\ 10 * CandPopt(i)[2] >= 15 * Val(fargs).rms
    /\ i # 3 => 10 * CandPopt(i)[5] >= 15 * Val(fargs).rms
Passing == {i \in Candidates : Converged(i) /\ PassesRule(i)}

(* C18: a parameter vector returned by bestfit is that of a candidate that *)
(* converged and passes the rejection rule, with the lowest residual of    *)
(* all such candidates.                                                    *)
C18_BestPassing ==
    (fn = "bestfit" /\ Val(res) # None) =>
        \E i \in Passing :
            /\ Val(Val(res)) = AsReturned(i)
            /\ \A k \in Passing : CandLsq(i) <= CandLsq(k)

(* C19: bestfit returns None exactly when no candidate converged and       *)
(* passes the rejection rule; one such candidate, whatever its residual,   *)
(* makes it return a parameter vector.                                     *)
C19_NoneIffNothingPasses ==
    fn = "bestfit" => (Val(res) = None <=> Passing = {})

(* C20: when gradL[argL] is not zero, every sample of the left tail is the *)
(* gradient's sample times gradR[argR] / gradL[argL], the right tail is    *)
(* unscaled, and the last sample of the reversed left tail equals the      *)
(* first sample of the right tail.                                         *)
C20_ScaledToMeet ==
    (Joined /\ SideGrad("L")[SideArg("L") + 1] # 0) =>
        LET gL == SideGrad("L")
            gR == SideGrad("R")
            aL == SideArg("L")
            aR == SideArg("R")
            nL == Len(gL) - aL
        IN  /\ \A j \in 1 .. nL :
                  /\ RetDfLR[j].den # 0
                  /\ RetDfLR[j].num * gL[aL + 1]
                        = gL[Len(gL) + 1 - j] * gR[aR + 1] * RetDfLR[j].den
            /\ \A j \in 1 .. (Len(gR) - aR) :
                  RetDfLR[nL + j] = [num |-> gR[aR + j], den |-> 1]
            /\ RetDfLR[nL].num * RetDfLR[nL + 1].den
                  = RetDfLR[nL + 1].num * RetDfLR[nL].den

C20_Witness ==
    /\ Joined
    /\ SideArg("L") = 3 /\ SideArg("R") = 2
    /\ SideGrad("L")[4] = 6 /\ SideGrad("R")[3] = 9
    /\ RetDfLR[GradLen - 4].num * 2 = 3 * SideGrad("L")[5] * RetDfLR[GradLen - 4].den
    /\ RetDfLR[GradLen - 3].num = 9 * RetDfLR[GradLen - 3].den

---------------------------------------------------------------------------
(* The layout of what set_dfunc returns *)

TailLen(sd) == Len(SideGrad(sd)) - SideArg(sd)
Increasing(v) == \A i \in 1 .. (Len(v) - 1) : v[i] < v[i + 1]

(* C21: what set_dfunc returns is the reversed left tail gradL[argL:],      *)
(* each sample scaled by gradR[argR] / gradL[argL], followed by the right   *)
(* tail gradR[argR:]; index, distribution function and voltage axis all     *)
(* have the length (len(gradL) - argL) + (len(gradR) - argR), and index     *)
(* counts up by one from -(len(gradL) - argL) to (len(gradR) - argR) - 1.   *)
C21_ReversedTailThenTail ==
    Joined =>
        LET gL == SideGrad("L")
            gR == SideGrad("R")
            nL == TailLen("L")
            nR == TailLen("R")
        IN  /\ Len(RetIndex) = nL + nR
            /\ Len(RetDfLR) = nL + nR
            /\ Len(RetVolt) = nL + nR
            /\ RetIndex[1] = -nL
            /\ RetIndex[nL + nR] = nR - 1
            /\ \A j \in 1 .. (nL + nR - 1) : RetIndex[j + 1] = RetIndex[j] + 1
            /\ \A j \in 1 .. nL :
                   RetDfLR[j] = [num |-> gL[Len(gL) + 1 - j] * gR[SideArg("R") + 1],
                                 den |-> gL[SideArg("L") + 1]]
            /\ \A j \in 1 .. nR :
                   RetDfLR[nL + j] = [num |-> gR[SideArg("R") + j], den |-> 1]

C21_Witness ==
    /\ Joined
    /\ SideArg("L") = 3 /\ SideArg("R") = 2
    /\ Len(RetDfLR) = (GradLen - 3) + (GradLen - 2)
    /\ RetIndex[1] = 3 - GradLen
    /\ RetIndex[Len(RetIndex)] = GradLen - 3
    /\ RetDfLR[1].num = SideGrad("L")[GradLen] * 9 /\ RetDfLR[1].den = 6
    /\ SideGrad("L")[GradLen] # SideGrad("L")[GradLen - 1]

(* C22: with both voltage axes given, the returned axis is the reversed     *)
(* negation of vL[argL:] - vL[argL] followed by vR[argR:] - vR[argR]; it is *)
(* zero at both samples next to the splice, and for increasing input axes   *)
(* nowhere positive left of the splice and nowhere negative right of it.    *)
C22_AxisZeroAtSplice ==
    (Joined /\ VoltsGiven) =>
        LET vL == SideVolt("L")
            vR == SideVolt("R")
            aL == SideArg("L")
            aR == SideArg("R")
            nL == TailLen("L")
            nR == TailLen("R")
        IN  /\ \A j \in 1 .. nL :
                   RetVolt[j] = -(vL[Len(vL) + 1 - j] - vL[aL + 1])
            /\ \A j \in 1 .. nR : RetVolt[nL + j] = vR[aR + j] - vR[aR + 1]
            /\ RetVolt[nL] = 0 /\ RetVolt[nL + 1] = 0
            /\ Increasing(vL) => \A j \in 1 .. nL : RetVolt[j] <= 0
            /\ Increasing(vR) => \A j \in 1 .. nR : RetVolt[nL + j] >= 0

C22_Witness ==
    /\ Joined /\ VoltsGiven
    /\ SideArg("L") = 3 /\ SideArg("R") = 2
    /\ Increasing(SideVolt("L")) /\ Increasing(SideVolt("R"))
    /\ SideVolt("L")[4] # 0 /\ SideVolt("R")[3] # 0
    /\ RetVolt[1] = SideVolt("L")[4] - SideVolt("L")[GradLen]
    /\ RetVolt[1] < 0
    /\ RetVolt[Len(RetVolt)] = SideVolt("R")[GradLen] - SideVolt("R")[3]
    /\ RetVolt[Len(RetVolt)] > 0

(* C23 as stated: when voltL or voltR is None, set_dfunc raises nothing and *)
(* returns a result whose axis is index * dV.                               *)
C23_NoneVoltsStillReturn ==
    (fn = "set_dfunc" /\ ~VoltsGiven) =>
        /\ Val(res).exc = ""
        /\ ~IsNone(Val(res).ret)
        /\ RetVolt = [j \in 1 .. Len(RetIndex) |-> RetIndex[j] * Val(fargs).dV]

(* The two sides are the same curve, cut at the same sample *)
SameSides ==
    /\ Val(fargs).sgL = Val(fargs).sgR
    /\ Val(fargs).fitL = Val(fargs).fitR
    /\ Val(fargs).voltL = Val(fargs).voltR
(* the sample returned at index k *)
DfAt(k) == RetDfLR[CHOOSE j \in 1 .. Len(RetIndex) : RetIndex[j] = k]
HasIndex(k) == \E j \in 1 .. Len(RetIndex) : RetIndex[j] = k
Finite(a) == a.den # 0
SameValue(a, b) == Finite(a) /\ Finite(b) /\ a.num * b.den = b.num * a.den

(* C24 as stated: with identical left and right inputs the returned         *)
(* distribution function has the same value at index k and at index -k,     *)
(* for every k with both in the index range.                                *)
C24_SymmetricAboutZero ==
    (Joined /\ SameSides) =>
        \A k \in 0 .. GradLen :
            (HasIndex(k) /\ HasIndex(-k)) => SameValue(DfAt(k), DfAt(-k))

(* C24 amended: with identical left and right inputs and a non-zero         *)
(* gradient at the splice sample, the value at index k equals the value at  *)
(* index -(k + 1): the mirror is between index -1 and index 0, and the      *)
(* splice sample is there twice.                                            *)
C24_SymmetricAboutSplice ==
    (Joined /\ SameSides /\ SideGrad("L")[SideArg("L") + 1] # 0) =>
        /\ TailLen("L") = TailLen("R")
        /\ \A k \in 0 .. (TailLen("R") - 1) :
               /\ HasIndex(k) /\ HasIndex(-(k + 1))
               /\ SameValue(DfAt(k), DfAt(-(k + 1)))

C24_Witness ==
    /\ Joined /\ SameSides
    /\ SideArg("L") = 3
    /\ DfAt(0).num = 6 * DfAt(0).den
    /\ DfAt(-1).num = 6 * DfAt(-1).den
    /\ DfAt(1).num # 6 * DfAt(1).den
    /\ SameValue(DfAt(1), DfAt(-2))
    /\ ~SameValue(DfAt(1), DfAt(-1))

(* the index of the voltage sample of a side nearest to the voltage v *)
NearestIndex(sd, v) ==
    argmin([j \in 1 .. Len(SideVolt(sd)) |-> Abs(SideVolt(sd)[j] - v)])
OneGauss(sd) == Val(SidePopt(sd))[5] = 0
(* the fit is taken: it is within 10% of a raw argmax that is not 0 *)
Near(sd, c) == RawArg(sd) # 0 /\ 10 * Abs(c - RawArg(sd)) < RawArg(sd)

(* C28: in check_popt the candidate splice index of a side with a fit is    *)
(* the index of the voltage sample nearest the peak x1 of a one-gauss fit   *)
(* (popt[4] = 0) and nearest min(x1, x2) of a two-gauss fit; no other index *)
(* but the raw argmax is ever taken, and x2 of a one-gauss fit plays no     *)
(* part.                                                                    *)
C28_LeftmostPeakIsCandidate ==
    Joined =>
        \A sd \in {"L", "R"} :
            ~IsNone(SidePopt(sd)) =>
                LET q == Val(SidePopt(sd))
                    c == IF OneGauss(sd) THEN NearestIndex(sd, q[1])
                         ELSE IF q[1] <= q[4] THEN NearestIndex(sd, q[1])
                         ELSE NearestIndex(sd, q[4])
                IN  /\ SideArg(sd) \in {c, RawArg(sd)}
                    /\ Near(sd, c) => SideArg(sd) = c
                    /\ SideArg(sd) # RawArg(sd) => Near(sd, c)

(* a one-gauss fit whose x2 is below x1 and far from the raw argmax, taken *)
(* at x1                                                                    *)
C28_Witness ==
    /\ Joined
    /\ ~IsNone(SidePopt("L")) /\ OneGauss("L")
    /\ Val(SidePopt("L"))[4] < Val(SidePopt("L"))[1]
    /\ RawArg("L") = 11
    /\ NearestIndex("L", Val(SidePopt("L"))[1]) = 10
    /\ NearestIndex("L", Val(SidePopt("L"))[4]) = 0
    /\ SideArg("L") = 10

---------------------------------------------------------------------------
(* Smoothing *)

Smoothed == fn \in {"rsmooth", "sgsmooth"}
HalfWindow == Val(fargs).nwindow \div 2
(* the kernel applied k times, the last pass outermost *)
RECURSIVE Passes(_, _, _)
Passes(a, k, w) == IF k = 0 THEN a ELSE smooth(Passes(a, k - 1, w), w).value
FitsSignal == Val(fargs).nwindow <= Len(Val(fargs).data)

(* C25 as stated: rsmooth returns the signal after exactly repeat passes   *)
(* of the kernel, for every repeat >= 0; with repeat = 0 it returns the    *)
(* signal unchanged; sgsmooth with a window of 1 returns the signal        *)
(* unchanged as its smoothed output.                                       *)
C25_PassesAndIdentity ==
    /\ (fn = "rsmooth" /\ FitsSignal) =>
           /\ Val(res).exc = ""
           /\ Val(res).value = Passes(Val(fargs).data, Val(fargs).repeat,
                                      Val(fargs).nwindow)
    /\ (fn = "rsmooth" /\ Val(fargs).repeat = 0) =>
           Val(res) = [exc |-> "", value |-> Val(fargs).data]
    /\ (fn = "sgsmooth" /\ Val(fargs).nwindow = 1) =>
           /\ Val(res).exc = ""
           /\ Val(res).y = Some(Val(fargs).data)

(* C26 as stated: for a signal of n samples and a window w with            *)
(* 2 * floor(w/2) < n, sgsmooth returns three arrays of n - 2 * floor(w/2) *)
(* samples each, and the index array is floor(w/2) .. n - floor(w/2) - 1.  *)
C26_TrimmedLengths ==
    (fn = "sgsmooth" /\ 2 * HalfWindow < Len(Val(fargs).data)) =>
        LET n == Len(Val(fargs).data)
            h == HalfWindow
        IN  /\ Val(res).exc = ""
            /\ Len(Val(Val(res).x)) = n - 2 * h
            /\ Len(Val(Val(res).y)) = n - 2 * h
            /\ Len(Val(Val(res).grad)) = n - 2 * h
            /\ Val(Val(res).x) = [j \in 1 .. (n - 2 * h) |-> h + j - 1]

---------------------------------------------------------------------------
(* The energy integral *)

(* the samples that count: both arrays reach them and their voltage is not 0 *)
Kept ==
    {i \in 1 .. Len(Val(fargs).volt) :
        i <= Len(Val(fargs).dfunc) /\ Val(fargs).volt[i] # 0}
Root(i) == Sqrt(Abs(Val(fargs).volt[i]))
RECURSIVE RootProduct(_)
RootProduct(S) ==
    IF S = {} THEN 1
    ELSE LET i == CHOOSE x \in S : TRUE IN Root(i) * RootProduct(S \ {i})
(* the two sums over a set of samples, the second one times the product of *)
(* all the roots of the kept samples                                       *)
RECURSIVE NumSum(_)
NumSum(S) ==
    IF S = {} THEN 0
    ELSE LET i == CHOOSE x \in S : TRUE
         IN  Val(fargs).dfunc[i] * Root(i) + NumSum(S \ {i})
RECURSIVE DenSum(_)
DenSum(S) ==
    IF S = {} THEN 0
    ELSE LET i == CHOOSE x \in S : TRUE
         IN  Val(fargs).dfunc[i] * RootProduct(Kept \ {i}) + DenSum(S \ {i})

(* C27: enint raises nothing; what it returns is the quotient of the sum   *)
(* of f * sqrt(|V|) by the sum of f / sqrt(|V|), both taken over exactly   *)
(* the samples of non-zero voltage, and it is inf or nan exactly when the  *)
(* second sum is zero, as it is when no sample has a non-zero voltage.     *)
C27_NonzeroVoltageOnly ==
    fn = "enint" =>
        /\ Val(res).exc = ""
        /\ (Val(res).value.den = 0) <=> (DenSum(Kept) = 0)
        /\ Val(res).value.num * DenSum(Kept) =
               NumSum(Kept) * RootProduct(Kept) * Val(res).value.den
        /\ Kept = {} => Val(res).value = [num |-> 0, den |-> 0]

(* one sample of zero voltage left out, a negative and a positive one kept *)
C27_Witness ==
    /\ fn = "enint"
    /\ Val(fargs).volt = <<-4, 0>> /\ Val(fargs).dfunc = <<2, 1>>
    /\ Val(res).value.num = 4 * Val(res).value.den
    /\ Val(res).value.den # 0

---------------------------------------------------------------------------
(* The B channel *)

Constructed == fn \in {"params", "integrate_bdot"}
Stored == Val(res).o.ch_bdot
GivenBdot == Val(fargs).ch_bdot
GivenBint == Val(fargs).ch_bint

(* C29 as stated: the stored B channel is ch_bdot whenever ch_bdot was     *)
(* given, channel 0 included, and ch_bint otherwise; f_bint is 1 exactly   *)
(* when the stored channel is the integrated-B channel; integrate_bdot     *)
(* returns its input unchanged exactly when f_bint is 1.                   *)
C29_StoredBChannel ==
    Constructed =>
        /\ Stored = IF ~IsNone(GivenBdot) THEN GivenBdot ELSE GivenBint
        /\ (Val(res).o.f_bint = 1) <=> (~IsNone(GivenBint) /\ Stored = GivenBint)
        /\ Val(res).o.f_bint \in {0, 1}
        /\ fn = "integrate_bdot" =>
               ((Val(Val(res).bint) = Val(fargs).bdot) <=> (Val(res).o.f_bint = 1))

---------------------------------------------------------------------------
(* The analysis times *)

(* a bound after a call: the value passed, or the old one if None was passed *)
BoundAfter(passed, old, new) ==
    /\ new = IF IsNone(passed) THEN old ELSE passed
    /\ ~IsNone(old) => ~IsNone(new)

(* C30: every set_time call leaves each of t1, t2, bt1, bt2 at the value   *)
(* it passes for it, or unchanged if it passes None for it, so that each   *)
(* bound holds the value of the latest call that passed one for it; no     *)
(* call unsets a bound that is set, and nothing else of the object changes. *)
C30_SetTimeKeepsOthers ==
    [][(fn' = "set_time") =>
          /\ BoundAfter(Val(fargs')[1], obj.t1, obj'.t1)
          /\ BoundAfter(Val(fargs')[2], obj.t2, obj'.t2)
          /\ BoundAfter(Val(fargs')[3], obj.bt1, obj'.bt1)
          /\ BoundAfter(Val(fargs')[4], obj.bt2, obj'.bt2)
          /\ obj'.nsteps = obj.nsteps /\ obj'.nshots = obj.nshots]_vars

(* t1 is kept from an earlier call by a call that passes t2 alone *)
C30_Witness ==
    /\ fn = "set_time"
    /\ Val(fargs) = <<None, Some(MaxNt), None, None>>
    /\ obj.t1 = Some(1) /\ obj.t2 = Some(MaxNt)
    /\ obj.bt1 = None /\ obj.bt2 = Some(MaxNt - 1)

===========================================================================
